---- MODULE Spec2Model ----
(***************************************************************************)
(* ScoutVision AI: the in-memory analytical engine.                        *)
(*                                                                         *)
(* The entity store (ScoutVisionDatabase), the indexed query service       *)
(* (OptimizedQueryService), the metric utilities, role scoring, similarity *)
(* search, k-means clustering, dataStore and DataLoader, as state          *)
(* machines.                                                               *)
(*                                                                         *)
(* Strings are sequences of one-character strings, so that normalizeName,  *)
(* toLowerCase, includes and the default sort are computed character by    *)
(* character.  An absent field (undefined) is the one-element sequence     *)
(* Undef, null is Null; neither is made of characters of the alphabet.     *)
(* JavaScript Maps and Sets keep insertion order: a Map is a sequence of   *)
(* [k, v] entries, a Set a sequence without repetitions.                   *)
(***************************************************************************)
EXTENDS Integers, Sequences, FiniteSets, TLC

VARIABLES
    db,         \* ScoutVisionDatabase: entity maps, indexes, name caches
    qs,         \* OptimizedQueryService: source arrays, indexes, TTL cache
    input,      \* the rows handed to the last load
    loadKind,   \* how the last load related to the store it replaced
    now,        \* Date.now()
    out,        \* what the last query returned to its caller
    store,      \* dataStore: the state object and the cache of computed values
    loader      \* DataLoader: its fields, the loads it started and its callers

vars == <<db, qs, input, loadKind, now, out, store, loader>>

\* dataStore before any setter: empty state, every computed value null (<<>>)
EmptyStore ==
    [players |-> <<>>, teams |-> <<>>, shots |-> <<>>,
     computedCache |-> [leagues |-> <<>>, teams |-> <<>>, positions |-> <<>>,
                        datasetStats |-> <<>>]]

\* a DataLoader after construction: nothing loaded, no load started, no caller
NewLoader ==
    [isLoaded |-> FALSE, data |-> <<>>, loadingPromise |-> <<>>,
     loads |-> <<>>, calls |-> <<>>]

(***************************************************************************)
(* Characters and strings                                                  *)
(***************************************************************************)

Undef == <<"#undefined">>
Null == <<"#null">>
EAcute == "e'"

\* UTF-16 code units of the characters used, for the default Array.sort
CharCode(c) ==
    CASE c = " " -> 32
      [] c = "." -> 46
      [] c = "A" -> 65
      [] c = "B" -> 66
      [] c = "C" -> 67
      [] c = "D" -> 68
      [] c = "_" -> 95
      [] c = "a" -> 97
      [] c = "b" -> 98
      [] c = "c" -> 99
      [] c = "d" -> 100
      [] c = EAcute -> 233
      [] OTHER -> 0

IsSpace(c) == c = " "

LowerChar(c) ==
    CASE c = "A" -> "a"
      [] c = "B" -> "b"
      [] c = "C" -> "c"
      [] c = "D" -> "d"
      [] OTHER -> c

\* String.prototype.toLowerCase
toLowerCase(s) == [i \in 1..Len(s) |-> LowerChar(s[i])]

RECURSIVE trimStart(_)
trimStart(s) ==
    IF s # <<>> /\ IsSpace(Head(s)) THEN trimStart(Tail(s)) ELSE s

RECURSIVE trimEnd(_)
trimEnd(s) ==
    IF s # <<>> /\ IsSpace(s[Len(s)]) THEN trimEnd(SubSeq(s, 1, Len(s) - 1)) ELSE s

\* String.prototype.trim
trim(s) == trimEnd(trimStart(s))

\* normalize('NFD') followed by the removal of the combining marks
StripAccent(c) == IF c = EAcute THEN "e" ELSE c

\* [a-z0-9\s]
IsKept(c) == c \in {"a", "b", "c", "d", "e"} \/ IsSpace(c)

\* replace(/[^a-z0-9\s]/g, '')
RECURSIVE stripSpecial(_)
stripSpecial(s) ==
    IF s = <<>> THEN <<>>
    ELSE IF IsKept(Head(s)) THEN <<Head(s)>> \o stripSpecial(Tail(s))
         ELSE stripSpecial(Tail(s))

\* replace(/\s+/g, ' ')
RECURSIVE collapseSpaces(_)
collapseSpaces(s) ==
    IF s = <<>> THEN <<>>
    ELSE IF IsSpace(Head(s))
         THEN <<" ">> \o collapseSpaces(trimStart(Tail(s)))
         ELSE <<Head(s)>> \o collapseSpaces(Tail(s))

normalizeName(name) ==
    LET lowered == trim(toLowerCase(name))
        plain == [i \in 1..Len(lowered) |-> StripAccent(lowered[i])]
    IN  collapseSpaces(stripSpecial(plain))

\* String.prototype.includes
includes(s, sub) ==
    \E i \in 0..(Len(s) - Len(sub)) : SubSeq(s, i + 1, i + Len(sub)) = sub

\* value || ''  and  String(value || '')
OrEmpty(f) == IF f = Undef THEN <<>> ELSE f

\* !value || typeof value !== 'string'
Unusable(f) == f = Undef \/ f = <<>>

generateId(prefix, name, extra) ==
    LET normalized == normalizeName(name \o extra)
    IN  <<prefix, "_">> \o
        [i \in 1..Len(normalized) |->
            IF IsSpace(normalized[i]) THEN "_" ELSE normalized[i]]

(***************************************************************************)
(* Insertion-ordered Map and Set                                           *)
(***************************************************************************)

MapHas(m, k) == \E i \in 1..Len(m) : m[i].k = k

MapGet(m, k) == m[CHOOSE i \in 1..Len(m) : m[i].k = k].v

MapSet(m, k, v) ==
    IF MapHas(m, k)
    THEN [i \in 1..Len(m) |-> IF m[i].k = k THEN [k |-> k, v |-> v] ELSE m[i]]
    ELSE Append(m, [k |-> k, v |-> v])

MapKeys(m) == [i \in 1..Len(m) |-> m[i].k]

MapValues(m) == [i \in 1..Len(m) |-> m[i].v]

Range(s) == {s[i] : i \in 1..Len(s)}

SetAdd(s, x) == IF x \in Range(s) THEN s ELSE Append(s, x)

(***************************************************************************)
(* ScoutVisionDatabase                                                     *)
(*                                                                         *)
(* A PlayerData row is [Player, Team, League, Position, Goals], a          *)
(* TeamStats row [team, league], a ShotEvent row [player, team].  The      *)
(* entities keep the fields the cross-references and the indexes are       *)
(* built from; the remaining profile columns are copied from the row       *)
(* without being read again and are left in rawData.                       *)
(***************************************************************************)

EmptyDb ==
    [players |-> <<>>, teams |-> <<>>, shots |-> <<>>,
     playersByTeam |-> <<>>, playersByLeague |-> <<>>, playersByPosition |-> <<>>,
     shotsByPlayer |-> <<>>, shotsByTeam |-> <<>>,
     normalizedTeamNames |-> <<>>, normalizedPlayerNames |-> <<>>]

\* a clear() that forgets the cache of normalized team names
clear_keepsTeamNames(d) ==
    [EmptyDb EXCEPT !.normalizedTeamNames = d.normalizedTeamNames]

clear(d) == EmptyDb

addToIndex(index, key, value) ==
    IF key = <<>> THEN index
    ELSE MapSet(index, key,
                SetAdd(IF MapHas(index, key) THEN MapGet(index, key) ELSE <<>>, value))

\* loadTeams, first forEach: one TeamStats row
loadTeamFromStats(d, ts) ==
    IF Unusable(ts.team) THEN d
    ELSE LET id == generateId("team", ts.team, OrEmpty(ts.league))
             normalizedName == normalizeName(ts.team)
             team == [id |-> id, name |-> ts.team, league |-> OrEmpty(ts.league),
                      rawData |-> <<ts>>]
         IN  [d EXCEPT !.teams = MapSet(@, id, team),
                       !.normalizedTeamNames = MapSet(@, normalizedName, id)]

\* loadTeams, second forEach: the team named by one PlayerData row
loadTeamFromPlayer(d, p) ==
    IF Unusable(p.Team) THEN d
    ELSE LET normalizedName == normalizeName(p.Team)
         IN  IF MapHas(d.normalizedTeamNames, normalizedName) THEN d
             ELSE LET id == generateId("team", p.Team, OrEmpty(p.League))
                      team == [id |-> id, name |-> p.Team, league |-> OrEmpty(p.League),
                               rawData |-> <<>>]
                  IN  [d EXCEPT !.teams = MapSet(@, id, team),
                                !.normalizedTeamNames = MapSet(@, normalizedName, id)]

RECURSIVE forEachTeamStats(_, _)
forEachTeamStats(d, rows) ==
    IF rows = <<>> THEN d
    ELSE forEachTeamStats(loadTeamFromStats(d, Head(rows)), Tail(rows))

RECURSIVE forEachPlayerTeam(_, _)
forEachPlayerTeam(d, rows) ==
    IF rows = <<>> THEN d
    ELSE forEachPlayerTeam(loadTeamFromPlayer(d, Head(rows)), Tail(rows))

loadTeams(d, teamStats, playerData) ==
    forEachPlayerTeam(forEachTeamStats(d, teamStats), playerData)

\* a findTeamId that builds the identifier from the name instead of looking it up
findTeamId_generated(d, teamName) ==
    IF Unusable(teamName) THEN Null ELSE generateId("team", teamName, <<>>)

findTeamId(d, teamName) ==
    IF Unusable(teamName) THEN Null
    ELSE LET normalized == normalizeName(teamName)
         IN  IF MapHas(d.normalizedTeamNames, normalized)
             THEN MapGet(d.normalizedTeamNames, normalized)
             ELSE Null

\* loadPlayers: the body of the forEach, one PlayerData row
loadPlayer(d, p) ==
    IF Unusable(p.Player) THEN d
    ELSE LET id == generateId("player", p.Player, OrEmpty(p.Team))
             normalizedName == normalizeName(p.Player)
             player == [id |-> id, name |-> p.Player,
                        teamId |-> findTeamId(d, p.Team),
                        teamName |-> OrEmpty(p.Team),
                        position |-> OrEmpty(p.Position),
                        league |-> OrEmpty(p.League),
                        rawData |-> p]
         IN  [d EXCEPT !.players = MapSet(@, id, player),
                       !.normalizedPlayerNames = MapSet(@, normalizedName, id),
                       !.playersByTeam = addToIndex(@, player.teamName, id),
                       !.playersByLeague = addToIndex(@, player.league, id),
                       !.playersByPosition = addToIndex(@, player.position, id)]

RECURSIVE loadPlayers(_, _)
loadPlayers(d, playerData) ==
    IF playerData = <<>> THEN d
    ELSE loadPlayers(loadPlayer(d, Head(playerData)), Tail(playerData))

\* the linear scan that ends findPlayerId, in the Map's insertion order
RECURSIVE partialMatch(_, _)
partialMatch(names, normalized) ==
    IF names = <<>> THEN Null
    ELSE IF includes(Head(names).k, normalized) \/ includes(normalized, Head(names).k)
         THEN Head(names).v
         ELSE partialMatch(Tail(names), normalized)

findPlayerId(d, playerName, teamName) ==
    IF Unusable(playerName) THEN Null
    ELSE LET normalized == normalizeName(playerName)
             withTeam == normalizeName(playerName \o OrEmpty(teamName))
         IN  IF MapHas(d.normalizedPlayerNames, normalized)
             THEN MapGet(d.normalizedPlayerNames, normalized)
             ELSE IF ~Unusable(teamName) /\ MapHas(d.normalizedPlayerNames, withTeam)
                  THEN MapGet(d.normalizedPlayerNames, withTeam)
                  ELSE partialMatch(d.normalizedPlayerNames, normalized)

\* Array.from(playerIds).map(id => this.players.get(id)).filter(p => p !== undefined)
RECURSIVE playersOfIds(_, _)
playersOfIds(d, playerIds) ==
    IF playerIds = <<>> THEN <<>>
    ELSE (IF MapHas(d.players, Head(playerIds))
          THEN <<MapGet(d.players, Head(playerIds))>> ELSE <<>>)
         \o playersOfIds(d, Tail(playerIds))

getPlayersByTeam(d, teamName) ==
    IF ~MapHas(d.playersByTeam, teamName) THEN <<>>
    ELSE playersOfIds(d, MapGet(d.playersByTeam, teamName))

getPlayersByPosition(d, position) ==
    IF ~MapHas(d.playersByPosition, position) THEN <<>>
    ELSE playersOfIds(d, MapGet(d.playersByPosition, position))

getPlayersByLeague(d, league) ==
    IF ~MapHas(d.playersByLeague, league) THEN <<>>
    ELSE playersOfIds(d, MapGet(d.playersByLeague, league))

\* `shot_${index}_${s.player || 'unknown'}`
shotId(index, s) ==
    <<"shot", "_", ToString(index), "_">> \o
    (IF Unusable(s.player) THEN <<"unknown">> ELSE s.player)

\* loadShots: the body of the forEach, one ShotEvent row at its index
loadShot(d, s, index) ==
    LET id == shotId(index, s)
        playerId == findPlayerId(d, s.player, s.team)
        shot == [id |-> id, playerId |-> playerId, playerName |-> OrEmpty(s.player),
                 teamId |-> findTeamId(d, s.team), teamName |-> OrEmpty(s.team),
                 rawData |-> s]
        withPlayer == IF playerId # Null
                      THEN addToIndex(d.shotsByPlayer, playerId, id)
                      ELSE d.shotsByPlayer
    IN  [d EXCEPT !.shots = MapSet(@, id, shot),
                  !.shotsByPlayer = withPlayer,
                  !.shotsByTeam = addToIndex(@, shot.teamName, id)]

RECURSIVE forEachShot(_, _, _)
forEachShot(d, shotEvents, index) ==
    IF index >= Len(shotEvents) THEN d
    ELSE forEachShot(loadShot(d, shotEvents[index + 1], index), shotEvents, index + 1)

loadShots(d, shotEvents) == forEachShot(d, shotEvents, 0)

initialize(d, playerData, teamStats, shotEvents) ==
    loadShots(loadPlayers(loadTeams(d, teamStats, playerData), playerData), shotEvents)

(***************************************************************************)
(* OptimizedQueryService                                                   *)
(***************************************************************************)

CACHE_TTL == 60000

EmptyTeamIndexEntry == [players |-> <<>>, shots |-> <<>>, stats |-> <<>>]

EmptyQs ==
    [allPlayers |-> <<>>, allTeams |-> <<>>, allShots |-> <<>>,
     teamIndex |-> <<>>, leagueIndex |-> <<>>, positionIndex |-> <<>>,
     sortedTeamNames |-> <<>>, cache |-> <<>>, isInitialized |-> FALSE]

TeamIndexEntry(index, teamName) ==
    IF MapHas(index, teamName) THEN MapGet(index, teamName) ELSE EmptyTeamIndexEntry

\* buildTeamIndex: the three forEach loops, over players, shots and team stats
RECURSIVE indexTeamPlayers(_, _)
indexTeamPlayers(index, players) ==
    IF players = <<>> THEN index
    ELSE LET player == Head(players)
             teamName == player.Team
         IN  IF Unusable(teamName) \/ trim(teamName) = <<>>
             THEN indexTeamPlayers(index, Tail(players))
             ELSE indexTeamPlayers(
                    MapSet(index, teamName,
                           [TeamIndexEntry(index, teamName) EXCEPT
                               !.players = Append(@, player)]),
                    Tail(players))

RECURSIVE indexTeamShots(_, _)
indexTeamShots(index, shots) ==
    IF shots = <<>> THEN index
    ELSE LET shot == Head(shots)
             teamName == shot.team
         IN  IF Unusable(teamName)
             THEN indexTeamShots(index, Tail(shots))
             ELSE indexTeamShots(
                    MapSet(index, teamName,
                           [TeamIndexEntry(index, teamName) EXCEPT
                               !.shots = Append(@, shot)]),
                    Tail(shots))

RECURSIVE indexTeamStats(_, _)
indexTeamStats(index, teams) ==
    IF teams = <<>> THEN index
    ELSE LET ts == Head(teams)
             teamName == ts.team
         IN  IF Unusable(teamName)
             THEN indexTeamStats(index, Tail(teams))
             ELSE indexTeamStats(
                    MapSet(index, teamName,
                           [TeamIndexEntry(index, teamName) EXCEPT !.stats = <<ts>>]),
                    Tail(teams))

\* a buildTeamIndex without this.teamIndex.clear()
buildTeamIndex_noClear(q) ==
    [q EXCEPT !.teamIndex =
        indexTeamStats(indexTeamShots(indexTeamPlayers(q.teamIndex, q.allPlayers),
                                      q.allShots),
                       q.allTeams)]

\* this.teamIndex.clear() and the three loops
buildTeamIndex(q) ==
    [q EXCEPT !.teamIndex =
        indexTeamStats(indexTeamShots(indexTeamPlayers(<<>>, q.allPlayers), q.allShots),
                       q.allTeams)]

RECURSIVE indexLeagues(_, _)
indexLeagues(index, players) ==
    IF players = <<>> THEN index
    ELSE LET player == Head(players)
             league == player.League
             teamsOf == IF MapHas(index, league) THEN MapGet(index, league) ELSE <<>>
         IN  IF Unusable(league) \/ trim(league) = <<>>
             THEN indexLeagues(index, Tail(players))
             ELSE indexLeagues(
                    MapSet(index, league,
                           IF Unusable(player.Team) THEN teamsOf
                           ELSE SetAdd(teamsOf, player.Team)),
                    Tail(players))

buildLeagueIndex(q) == [q EXCEPT !.leagueIndex = indexLeagues(<<>>, q.allPlayers)]

RECURSIVE indexPositions(_, _)
indexPositions(index, players) ==
    IF players = <<>> THEN index
    ELSE LET player == Head(players)
             position == player.Position
         IN  IF Unusable(position) \/ trim(position) = <<>>
             THEN indexPositions(index, Tail(players))
             ELSE indexPositions(
                    MapSet(index, position,
                           Append(IF MapHas(index, position)
                                  THEN MapGet(index, position) ELSE <<>>, player)),
                    Tail(players))

buildPositionIndex(q) == [q EXCEPT !.positionIndex = indexPositions(<<>>, q.allPlayers)]

\* the default comparison of Array.prototype.sort: by UTF-16 code units
RECURSIVE StringLess(_, _)
StringLess(a, b) ==
    IF b = <<>> THEN FALSE
    ELSE IF a = <<>> THEN TRUE
    ELSE IF CharCode(Head(a)) # CharCode(Head(b))
         THEN CharCode(Head(a)) < CharCode(Head(b))
         ELSE StringLess(Tail(a), Tail(b))

RECURSIVE insertSorted(_, _)
insertSorted(sorted, x) ==
    IF sorted = <<>> THEN <<x>>
    ELSE IF StringLess(x, Head(sorted)) THEN <<x>> \o sorted
         ELSE <<Head(sorted)>> \o insertSorted(Tail(sorted), x)

\* Array.prototype.sort() without a comparator (stable)
RECURSIVE sort(_)
sort(names) ==
    IF names = <<>> THEN <<>>
    ELSE insertSorted(sort(SubSeq(names, 1, Len(names) - 1)), names[Len(names)])

queryInitialize(q, players, teams, shots) ==
    LET built == buildPositionIndex(buildLeagueIndex(buildTeamIndex(
                    [q EXCEPT !.allPlayers = players,
                              !.allTeams = teams,
                              !.allShots = shots])))
    IN  [built EXCEPT !.sortedTeamNames = sort(MapKeys(built.teamIndex)),
                      !.isInitialized = TRUE]

\* an optional numeric argument: <<>> when the caller leaves it out, <<n>> otherwise
DefaultTeamLimit == 15
DefaultPlayerLimit == 50

\* Array.prototype.slice(0, n)
slice(s, n) == SubSeq(s, 1, IF n < Len(s) THEN n ELSE Len(s))

\* searchTeams: the for loop over sortedTeamNames, with its break
RECURSIVE scanTeams(_, _, _, _)
scanTeams(names, lower, limit, results) ==
    IF names = <<>> THEN results
    ELSE IF includes(toLowerCase(Head(names)), lower)
         THEN IF Len(results) + 1 >= limit
              THEN Append(results, Head(names))
              ELSE scanTeams(Tail(names), lower, limit, Append(results, Head(names)))
         ELSE scanTeams(Tail(names), lower, limit, results)

qsSearchTeams(q, query, limitArg) ==
    LET limit == IF limitArg = <<>> THEN DefaultTeamLimit ELSE limitArg[1]
    IN  IF query = <<>> THEN slice(q.sortedTeamNames, limit)
        ELSE scanTeams(q.sortedTeamNames, toLowerCase(query), limit, <<>>)

getTeamPlayers(q, teamName) == TeamIndexEntry(q.teamIndex, teamName).players

\* OptimizedQueryService.searchPlayers: the for loop over sourceData, with its break;
\* team and position are <<>> when the option is absent
RECURSIVE scanPlayers(_, _, _, _, _)
scanPlayers(source, query, position, limit, results) ==
    IF source = <<>> THEN results
    ELSE LET player == Head(source)
             lower == toLowerCase(query)
             playerName == toLowerCase(OrEmpty(player.Player))
             teamName == toLowerCase(OrEmpty(player.Team))
             skipped ==
                \/ position # <<>> /\ player.Position # position
                \/ query # <<>> /\ ~includes(playerName, lower) /\ ~includes(teamName, lower)
         IN  IF skipped THEN scanPlayers(Tail(source), query, position, limit, results)
             ELSE IF Len(results) + 1 >= limit
                  THEN Append(results, player)
                  ELSE scanPlayers(Tail(source), query, position, limit,
                                   Append(results, player))

qsSearchPlayers(q, query, team, position, limitArg) ==
    LET limit == IF limitArg = <<>> \/ limitArg = <<0>>
                 THEN DefaultPlayerLimit ELSE limitArg[1]
        sourceData == IF team # <<>> THEN getTeamPlayers(q, team) ELSE q.allPlayers
    IN  scanPlayers(sourceData, query, position, limit, <<>>)

\* Array.prototype.filter over the entities of the store
RECURSIVE filterByText(_, _)
filterByText(entities, normalized) ==
    IF entities = <<>> THEN <<>>
    ELSE LET e == Head(entities)
             matches == \/ includes(normalizeName(e.name), normalized)
                        \/ includes(normalizeName(e.teamName), normalized)
         IN  (IF matches THEN <<e>> ELSE <<>>) \o filterByText(Tail(entities), normalized)

RECURSIVE filterByPosition(_, _)
filterByPosition(entities, position) ==
    IF entities = <<>> THEN <<>>
    ELSE (IF Head(entities).position = position THEN <<Head(entities)>> ELSE <<>>)
         \o filterByPosition(Tail(entities), position)

\* ScoutVisionDatabase.searchPlayers with the options {position, limit}; the
\* league, team, age and market value options filter in the same way
dbSearchPlayers(d, query, position, limitArg) ==
    LET all == MapValues(d.players)
        byText == IF query # <<>> THEN filterByText(all, normalizeName(query)) ELSE all
        byPosition == IF position # <<>> THEN filterByPosition(byText, position)
                      ELSE byText
    IN  IF limitArg # <<>> /\ limitArg # <<0>> THEN slice(byPosition, limitArg[1])
        ELSE byPosition

(***************************************************************************)
(* The TTL cache of team aggregates                                        *)
(***************************************************************************)

MapDelete(m, k) ==
    LET keep == {i \in 1..Len(m) : m[i].k # k}
        Nth(n) == CHOOSE i \in keep : Cardinality({j \in keep : j <= i}) = n
    IN  [n \in 1..Cardinality(keep) |-> m[Nth(n)]]

cacheKey(teamName) == <<"team_stats_">> \o teamName

\* getFromCache at time t: the cache it leaves and the value it returns
\* (<<>> for null, <<data>> for a hit)
getFromCache(cache, key, t) ==
    IF ~MapHas(cache, key) THEN [cache |-> cache, value |-> <<>>]
    ELSE LET entry == MapGet(cache, key)
         IN  IF t - entry.timestamp > CACHE_TTL
             THEN [cache |-> MapDelete(cache, key), value |-> <<>>]
             ELSE [cache |-> cache, value |-> <<entry.data>>]

setCache(cache, key, data, t) == MapSet(cache, key, [data |-> data, timestamp |-> t])

RECURSIVE sumGoals(_)
sumGoals(players) ==
    IF players = <<>> THEN 0 ELSE Head(players).Goals + sumGoals(Tail(players))

\* the aggregate of a team's players: playerCount and totalGoals; the other
\* totals and averages are sums over the same players kept in the same object
aggregate(players) ==
    IF Len(players) = 0 THEN [playerCount |-> 0, totalGoals |-> 0]
    ELSE [playerCount |-> Len(players), totalGoals |-> sumGoals(players)]

\* getTeamAggregatedStats at time t: the service it leaves and what it returns
getTeamAggregatedStats(q, teamName, t) ==
    LET key == cacheKey(teamName)
        cached == getFromCache(q.cache, key, t)
        players == getTeamPlayers(q, teamName)
        result == aggregate(players)
    IN  IF cached.value # <<>>
        THEN [q |-> [q EXCEPT !.cache = cached.cache], result |-> cached.value[1]]
        ELSE IF Len(players) = 0
             THEN [q |-> [q EXCEPT !.cache = cached.cache], result |-> result]
             ELSE [q |-> [q EXCEPT !.cache = setCache(cached.cache, key, result, t)],
                   result |-> result]

(***************************************************************************)
(* Input rows                                                              *)
(***************************************************************************)

MaxPlayerRows == 2

LeagueA == <<"A">>
LeagueB == <<"B">>
ST == <<"S", "T">>
GK == <<"G", "K">>

PlayerRow(player, team, league, position, goals) ==
    [Player |-> player, Team |-> team, League |-> league, Position |-> position,
     Goals |-> goals]

\* "ab" of "c"; "a" of "bc" in another league (name + team concatenate to the
\* same text); a row without a player name, of a team no other row names;
\* "Ab." without a team (the name of the first row up to case and punctuation)
AbOfC == PlayerRow(<<"a", "b">>, <<"c">>, LeagueA, ST, 1)
AOfBc == PlayerRow(<<"a">>, <<"b", "c">>, LeagueB, GK, 2)
NamelessOfD == PlayerRow(Undef, <<"d">>, LeagueB, GK, 1)
AbWithoutTeam == PlayerRow(<<"A", "b", ".">>, Undef, LeagueB, ST, 3)

PlayerPool == { AbOfC, AOfBc, NamelessOfD, AbWithoutTeam }

TeamRow(team, league) == [team |-> team, league |-> league]

ShotRow(player, team) == [player |-> player, team |-> team]

SeqsUpTo(S, n) == UNION {[1..k -> S] : k \in 0..n}

PlayerInputs == SeqsUpTo(PlayerPool, MaxPlayerRows)

\* no team statistics, or a row without a team name followed by the row of
\* "C." (the team "c" of the player rows up to case and punctuation)
TeamInputs == { <<>>, <<TeamRow(Undef, LeagueA), TeamRow(<<"C", ".">>, LeagueA)>> }

\* no shots, or one shot whose player name is punctuation only
ShotInputs == { <<>>, <<ShotRow(<<".">>, <<"c">>)>> }

(***************************************************************************)
(* State and actions                                                       *)
(***************************************************************************)

NoInput == [players |-> <<>>, teams |-> <<>>, shots |-> <<>>, loaded |-> FALSE]

NoOut == [op |-> "none"]

Init ==
    /\ db = EmptyDb
    /\ qs = EmptyQs
    /\ input = NoInput
    /\ loadKind = [kind |-> "none", dropped |-> FALSE]
    /\ now = 0
    /\ store = EmptyStore
    /\ loader = NewLoader
    /\ out = NoOut

\* DataLoader.performLoad once the three files are parsed: the store is cleared
\* and rebuilt, then the query service is initialized on the same rows
Load(players, teams, shots) ==
    /\ db' = initialize(clear(db), players, teams, shots)
    /\ qs' = queryInitialize(qs, players, teams, shots)
    /\ input' = [players |-> players, teams |-> teams, shots |-> shots, loaded |-> TRUE]
    /\ loadKind' =
         [kind |-> IF ~input.loaded THEN "first"
                   ELSE IF input' = input THEN "same" ELSE "swap",
          dropped |-> \E i \in 1..Len(db.players) :
                         ~MapHas(db'.players, db.players[i].k)]
    /\ out' = [op |-> "load"]
    /\ UNCHANGED <<now, store, loader>>

Next ==
    \E players \in PlayerInputs, teams \in TeamInputs, shots \in ShotInputs :
        Load(players, teams, shots)

Spec == Init /\ [][Next]_vars

(***************************************************************************)
(* The query service over time: loads, the clock and the aggregate cache   *)
(***************************************************************************)

MaxNow == 95000

Dataset(players, teams, shots) == [players |-> players, teams |-> teams, shots |-> shots]

\* "c" has one player and "d" one; then "c" has none and "d" two
CacheInputs ==
    { Dataset(<<AbOfC, NamelessOfD>>, <<>>, <<>>),
      Dataset(<<AOfBc, NamelessOfD, NamelessOfD>>, <<>>, <<>>) }

TeamQueries == { <<"c">>, <<"d">> }

\* the clock moves by half the time-to-live, or by one millisecond more
TickSteps == { CACHE_TTL \div 2, CACHE_TTL \div 2 + 1 }

Tick(step) ==
    /\ now + step <= MaxNow
    /\ now' = now + step
    /\ UNCHANGED <<db, qs, input, loadKind, out, store, loader>>

CacheEntry(cache, key) == IF MapHas(cache, key) THEN <<MapGet(cache, key)>> ELSE <<>>

\* a caller of getTeamAggregatedStats; out keeps the entry the call found
GetTeamAggregatedStats(teamName) ==
    LET call == getTeamAggregatedStats(qs, teamName, now)
    IN  /\ qs.isInitialized
        /\ qs' = call.q
        /\ out' = [op |-> "teamStats", team |-> teamName, at |-> now,
                   before |-> CacheEntry(qs.cache, cacheKey(teamName)),
                   result |-> call.result]
        /\ UNCHANGED <<db, input, loadKind, now, store, loader>>

NextCache ==
    \/ \E i \in CacheInputs : Load(i.players, i.teams, i.shots)
    \/ \E step \in TickSteps : Tick(step)
    \/ \E teamName \in TeamQueries : GetTeamAggregatedStats(teamName)

SpecCache == Init /\ [][NextCache]_vars

(***************************************************************************)
(* Loads whose shots name a player that two teams have                     *)
(***************************************************************************)

\* "ab" of "d": the name of the first row, in another team
AbOfD == PlayerRow(<<"a", "b">>, <<"d">>, LeagueA, ST, 2)

ShotLinkPlayers == SeqsUpTo({AbOfC, AbOfD, AOfBc}, MaxPlayerRows)

\* no shot, or one shot of "ab" for "c" or for "d"
ShotLinkShots == { <<>>, <<ShotRow(<<"a", "b">>, <<"c">>)>>, <<ShotRow(<<"a", "b">>, <<"d">>)>> }

NextShots ==
    \E players \in ShotLinkPlayers, shots \in ShotLinkShots : Load(players, <<>>, shots)

SpecShots == Init /\ [][NextShots]_vars

(***************************************************************************)
(* The search functions                                                    *)
(***************************************************************************)

MaxLimit == 2

\* four teams ("C." from the statistics, "bc", "c" and "d" from the players),
\* the players not in the order of their names; or one player
SearchInputs ==
    { Dataset(<<AbOfC, AOfBc, NamelessOfD, AbWithoutTeam>>,
              <<TeamRow(<<"C", ".">>, LeagueA)>>, <<>>),
      Dataset(<<AbOfC>>, <<>>, <<>>) }

SearchQueries == { <<>>, <<"c">>, <<"B">>, <<".">> }

LimitArgs == { <<>> } \cup { <<n>> : n \in 0..MaxLimit }

SearchTeams(query, limitArg) ==
    /\ qs.isInitialized
    /\ out' = [op |-> "searchTeams", query |-> query, limit |-> limitArg,
               names |-> qsSearchTeams(qs, query, limitArg)]
    /\ UNCHANGED <<db, qs, input, loadKind, now, store, loader>>

RowNames(rows) == [i \in 1..Len(rows) |-> OrEmpty(rows[i].Player)]

QuerySearchPlayers(query, team, position, limitArg) ==
    /\ qs.isInitialized
    /\ out' = [op |-> "queryService.searchPlayers", query |-> query, limit |-> limitArg,
               names |-> RowNames(qsSearchPlayers(qs, query, team, position, limitArg))]
    /\ UNCHANGED <<db, qs, input, loadKind, now, store, loader>>

EntityNames(entities) == [i \in 1..Len(entities) |-> entities[i].name]

DatabaseSearchPlayers(query, position, limitArg) ==
    /\ input.loaded
    /\ out' = [op |-> "database.searchPlayers", query |-> query, limit |-> limitArg,
               names |-> EntityNames(dbSearchPlayers(db, query, position, limitArg))]
    /\ UNCHANGED <<db, qs, input, loadKind, now, store, loader>>

NextSearch ==
    \/ \E i \in SearchInputs : Load(i.players, i.teams, i.shots)
    \/ \E query \in SearchQueries, limitArg \in LimitArgs : SearchTeams(query, limitArg)
    \/ \E query \in SearchQueries, team \in {<<>>, <<"c">>}, position \in {<<>>, GK},
          limitArg \in LimitArgs :
            QuerySearchPlayers(query, team, position, limitArg)
    \/ \E query \in SearchQueries, position \in {<<>>, GK}, limitArg \in LimitArgs :
            DatabaseSearchPlayers(query, position, limitArg)

SpecSearch == Init /\ [][NextSearch]_vars

(***************************************************************************)
(* Metric utilities                                                        *)
(*                                                                         *)
(* A cohort is given by the column Number(p[metricKey]) of its players:    *)
(* <<n>> for the number n, <<>> for NaN (an absent or non-numeric cell).   *)
(* Quotients are kept exact, as [num, den] with den > 0; the standard      *)
(* deviation is kept by its square.                                        *)
(***************************************************************************)

MaxCohort == 3
MaxMetric == 2

Fraction(num, den) == IF den < 0 THEN [num |-> -num, den |-> -den]
                      ELSE [num |-> num, den |-> den]

\* .filter(v => !isNaN(v) && isFinite(v))
RECURSIVE finiteValues(_)
finiteValues(column) ==
    IF column = <<>> THEN <<>>
    ELSE (IF Head(column) = <<>> THEN <<>> ELSE <<Head(column)[1]>>)
         \o finiteValues(Tail(column))

RECURSIVE Sum(_)
Sum(values) == IF values = <<>> THEN 0 ELSE Head(values) + Sum(Tail(values))

\* Math.min(...values), Math.max(...values)
MathMin(values) == CHOOSE v \in Range(values) : \A w \in Range(values) : v <= w
MathMax(values) == CHOOSE v \in Range(values) : \A w \in Range(values) : v >= w

\* a calculateMetricBounds that returns the maximum as it found it
calculateMetricBounds_rawMax(column) ==
    LET values == finiteValues(column)
    IN  IF Len(values) = 0
        THEN [min |-> 0, max |-> 1, mean |-> Fraction(0, 1), stdDevSq |-> Fraction(1, 1)]
        ELSE [min |-> MathMin(values), max |-> MathMax(values),
              mean |-> Fraction(Sum(values), Len(values)),
              stdDevSq |-> Fraction(1, 1)]

calculateMetricBounds(column) ==
    LET values == finiteValues(column)
        n == Len(values)
        min == MathMin(values)
        max == MathMax(values)
        \* sum((v - mean)^2) / n, with mean = Sum(values) / n
        variance ==
            Fraction(n * Sum([i \in 1..n |-> values[i] * values[i]])
                        - Sum(values) * Sum(values),
                     n * n)
    IN  IF n = 0
        THEN [min |-> 0, max |-> 1, mean |-> Fraction(0, 1), stdDevSq |-> Fraction(1, 1)]
        ELSE [min |-> min,
              max |-> IF max = min THEN min + 1 ELSE max,
              mean |-> Fraction(Sum(values), n),
              \* Math.sqrt(variance) || 1
              stdDevSq |-> IF variance.num = 0 THEN Fraction(1, 1) ELSE variance]

\* the number 0 / 0
NaN == [num |-> 0, den |-> 0]

\* value is <<n>> for the number n and <<>> for NaN
normalizeValue(value, bounds) ==
    LET range == bounds.max - bounds.min
        quotient == Fraction(value[1] - bounds.min, range)
        \* Math.min(1, quotient)
        atMostOne == IF quotient.num > quotient.den THEN Fraction(1, 1) ELSE quotient
    IN  IF range = 0 THEN Fraction(1, 2)
        \* Math.min and Math.max return NaN when an argument is NaN
        ELSE IF value = <<>> THEN NaN
        \* Math.max(0, atMostOne)
        ELSE IF atMostOne.num < 0 THEN Fraction(0, 1) ELSE atMostOne

MetricValues == (0 - 1)..MaxMetric

\* the numbers a caller normalizes: below, within and above the bounds, and NaN
Values == {<<>>} \cup {<<v>> : v \in (0 - 2)..(MaxMetric + 1)}

Columns == SeqsUpTo({<<>>} \cup {<<v>> : v \in MetricValues}, MaxCohort)

\* any bounds object, from a cohort or not: min above max and min = max included
AnyBounds ==
    { [min |-> lo, max |-> hi, mean |-> Fraction(0, 1), stdDevSq |-> Fraction(1, 1)] :
        lo \in MetricValues, hi \in MetricValues }

CalculateMetricBounds(column) ==
    /\ out' = [op |-> "calculateMetricBounds", column |-> column,
               bounds |-> calculateMetricBounds(column)]
    /\ UNCHANGED <<db, qs, input, loadKind, now, store, loader>>

NormalizeValue(value, bounds) ==
    /\ out' = [op |-> "normalizeValue", value |-> value, bounds |-> bounds,
               normalized |-> normalizeValue(value, bounds)]
    /\ UNCHANGED <<db, qs, input, loadKind, now, store, loader>>

\* the bounds a caller passes on are those it computed, or any others
NextMetrics ==
    \/ \E column \in Columns : CalculateMetricBounds(column)
    \/ \E value \in Values, bounds \in AnyBounds :
          NormalizeValue(value, bounds)
    \/ /\ out.op = "calculateMetricBounds"
       /\ \E value \in Values : NormalizeValue(value, out.bounds)

SpecMetrics == Init /\ [][NextMetrics]_vars

(***************************************************************************)
(* Percentiles                                                             *)
(***************************************************************************)

MaxValues == 4
MaxValue == 4

\* Math.round(num / den) for den > 0: the nearest integer, halves upwards
MathRound(num, den) == (2 * num + den) \div (2 * den)

RECURSIVE insertNumber(_, _)
insertNumber(v, sorted) ==
    IF sorted = <<>> THEN <<v>>
    ELSE IF v < Head(sorted) THEN <<v>> \o sorted
    ELSE <<Head(sorted)>> \o insertNumber(v, Tail(sorted))

\* [...allValues].sort((a, b) => a - b)
RECURSIVE sortNumbers(_)
sortNumbers(values) ==
    IF values = <<>> THEN <<>>
    ELSE insertNumber(Head(values), sortNumbers(Tail(values)))

\* sorted.filter(v => v < value).length
RECURSIVE countBelow(_, _)
countBelow(sorted, value) ==
    IF sorted = <<>> THEN 0
    ELSE (IF Head(sorted) < value THEN 1 ELSE 0) + countBelow(Tail(sorted), value)

\* sorted.filter(v => v === value).length
RECURSIVE countEqual(_, _)
countEqual(sorted, value) ==
    IF sorted = <<>> THEN 0
    ELSE (IF Head(sorted) = value THEN 1 ELSE 0) + countEqual(Tail(sorted), value)

\* a calculatePercentile that leaves the equal values out
calculatePercentile_belowOnly(value, allValues) ==
    IF Len(allValues) = 0 THEN 50
    ELSE MathRound(countBelow(allValues, value) * 100, Len(allValues))

\* a calculatePercentile that counts the values at a distance below, not below
calculatePercentile_nearBelow(value, allValues) ==
    IF Len(allValues) = 0 THEN 50
    ELSE MathRound((countBelow(allValues, value) - countBelow(allValues, value - 1)) * 100,
                   Len(allValues))

calculatePercentile(value, allValues) ==
    LET sorted == sortNumbers(allValues)
        \* (countBelow + 0.5 * countEqual) / sorted.length * 100, as a quotient
        percentile ==
            Fraction((2 * countBelow(sorted, value) + countEqual(sorted, value)) * 100,
                     2 * Len(sorted))
        \* Math.min(100, percentile)
        atMost100 == IF percentile.num > 100 * percentile.den THEN Fraction(100, 1)
                     ELSE percentile
        \* Math.max(0, atMost100)
        clamped == IF atMost100.num < 0 THEN Fraction(0, 1) ELSE atMost100
    IN  IF Len(allValues) = 0 THEN 50
        ELSE MathRound(clamped.num, clamped.den)

ValueLists == SeqsUpTo(0..MaxValue, MaxValues)

\* a caller about to ask for the percentile of a value in a list of values
InitPercentile ==
    /\ db = EmptyDb
    /\ qs = EmptyQs
    /\ input = NoInput
    /\ loadKind = [kind |-> "none", dropped |-> FALSE]
    /\ now = 0
    /\ store = EmptyStore
    /\ loader = NewLoader
    /\ \E value \in (0 - 1)..(MaxValue + 1), allValues \in ValueLists :
          out = [op |-> "call", value |-> value, allValues |-> allValues]

CalculatePercentile ==
    /\ out.op = "call"
    /\ out' = [op |-> "calculatePercentile", value |-> out.value,
               allValues |-> out.allValues,
               percentile |-> calculatePercentile(out.value, out.allValues)]
    /\ UNCHANGED <<db, qs, input, loadKind, now, store, loader>>

NextPercentile == CalculatePercentile

SpecPercentile == InitPercentile /\ [][NextPercentile]_vars

(***************************************************************************)
(* Role scoring                                                            *)
(*                                                                         *)
(* Weights, raw scores and contributions are in hundredths: the weight     *)
(* 0.30 is 30 and the raw score 0.60 is 60.  Metric values are whole       *)
(* numbers, so toFixed(2) and toFixed(3) change nothing.  Normalized       *)
(* scores and percentiles are whole numbers; a number that can be NaN is   *)
(* <<n>> or, for NaN, <<>>.                                                *)
(***************************************************************************)

LDMF == <<"L", "D", "M", "F">>
LCMF == <<"L", "C", "M", "F">>
RCMF == <<"R", "C", "M", "F">>
DMF == <<"D", "M", "F">>

Weight(metric, weight) == [metric |-> metric, weight |-> weight]

\* two of the roles of ROLE_DEFINITIONS, in the order of the table
ROLE_DEFINITIONS ==
    << [name |-> "Shot-Stopping Goalkeeper",
        positions |-> <<GK>>,
        metrics |-> << Weight("Save rate, %", 30),
                       Weight("Prevented goals per 90", 25),
                       Weight("Clean sheets", 15),
                       Weight("Aerial duels won, %", 10),
                       Weight("Conceded goals per 90", 0 - 10),
                       Weight("Shots against per 90", 5),
                       Weight("xG against per 90", 0 - 5) >>],
       [name |-> "Carrilero",
        positions |-> <<LCMF, RCMF, DMF>>,
        metrics |-> << Weight("Passes per 90", 20),
                       Weight("Accurate passes, %", 18),
                       Weight("Successful defensive actions per 90", 15),
                       Weight("Progressive passes per 90", 15),
                       Weight("Duels won, %", 12),
                       Weight("PAdj Interceptions", 10),
                       Weight("Passes to final third per 90", 10) >>] >>

\* ROLE_DEFINITIONS[role]: <<definition>>, or <<>> for a name the table lacks
RoleDefinition(role) ==
    IF \E i \in 1..Len(ROLE_DEFINITIONS) : ROLE_DEFINITIONS[i].name = role
    THEN <<ROLE_DEFINITIONS[CHOOSE i \in 1..Len(ROLE_DEFINITIONS) :
                                ROLE_DEFINITIONS[i].name = role]>>
    ELSE <<>>

\* Number(player[metric]) || 0
MetricValue(player, metric) == IF metric \in DOMAIN player THEN player[metric] ELSE 0

\* the sum of value * weight over the metrics of a role
RECURSIVE weightedSum(_, _)
weightedSum(player, metrics) ==
    IF metrics = <<>> THEN 0
    ELSE MetricValue(player, Head(metrics).metric) * Head(metrics).weight
         + weightedSum(player, Tail(metrics))

\* maxScores is <<>> when the caller gives none, else a function of the role names
calculateRoleScore(player, role, normalize, maxScores) ==
    LET definition == RoleDefinition(role)
        score == weightedSum(player, definition[1].metrics)
    IN  IF definition = <<>> THEN 0
        ELSE IF normalize /\ maxScores # <<>> /\ maxScores[1][role] > 0
             THEN MathRound(score * 100, maxScores[1][role])
        ELSE score

\* items are <<key, value>>; the item goes before the first one it is not below
RECURSIVE insertDescending(_, _)
insertDescending(item, sorted) ==
    IF sorted = <<>> THEN <<item>>
    ELSE IF Head(sorted)[1] <= item[1] THEN <<item>> \o sorted
    ELSE <<Head(sorted)>> \o insertDescending(item, Tail(sorted))

\* items.sort((a, b) => b.key - a.key), a stable sort
RECURSIVE sortDescending(_)
sortDescending(items) ==
    IF items = <<>> THEN <<>>
    ELSE insertDescending(Head(items), sortDescending(Tail(items)))

SecondOf(items) == [i \in 1..Len(items) |-> items[i][2]]

BreakdownEntry(player, w) ==
    [metric |-> w.metric, value |-> MetricValue(player, w.metric), weight |-> w.weight,
     contribution |-> MetricValue(player, w.metric) * w.weight]

\* Math.max(...values, 1), the 1 being 100 hundredths
MaxWithOne(values) ==
    CHOOSE m \in Range(values) \cup {100} : \A v \in Range(values) \cup {100} : v <= m

calculateDetailedRoleScore(player, role, cohort) ==
    LET definition == RoleDefinition(role)
        metrics == definition[1].metrics
        rawScore == weightedSum(player, metrics)
        breakdown == [i \in 1..Len(metrics) |-> BreakdownEntry(player, metrics[i])]
        cohortScores ==
            [i \in 1..Len(cohort) |-> calculateRoleScore(cohort[i], role, FALSE, <<>>)]
        maxScore == MaxWithOne(cohortScores)
        \* sortedScores.filter(s => s < rawScore).length
        rank == countBelow(sortNumbers(cohortScores), rawScore)
    IN  IF definition = <<>> THEN Null
        ELSE [role |-> role,
              rawScore |-> rawScore,
              normalizedScore |-> MathRound(rawScore * 100, maxScore),
              \* Math.round((rank / cohortScores.length) * 100), NaN for 0 / 0
              percentile |-> IF Len(cohortScores) = 0 THEN <<>>
                             ELSE <<MathRound(rank * 100, Len(cohortScores))>>,
              breakdown |->
                  SecondOf(sortDescending(
                      [i \in 1..Len(breakdown) |->
                          <<breakdown[i].contribution, breakdown[i]>>]))]

\* the highest score of a role in data, or 1 when none is above 0
MaxScoreOf(data, role) ==
    LET scores == {calculateRoleScore(data[i], role, FALSE, <<>>) : i \in 1..Len(data)}
        max == CHOOSE m \in scores \cup {0} : \A v \in scores \cup {0} : v <= m
    IN  IF max > 0 THEN max ELSE 100

calculateMaxScores(data) ==
    [role \in {ROLE_DEFINITIONS[i].name : i \in 1..Len(ROLE_DEFINITIONS)} |->
        MaxScoreOf(data, role)]

\* position.split(',')
RECURSIVE split(_)
split(position) ==
    IF \A i \in 1..Len(position) : position[i] # ","
    THEN <<position>>
    ELSE LET comma == CHOOSE i \in 1..Len(position) :
                         position[i] = "," /\ \A j \in 1..(i - 1) : position[j] # ","
         IN  <<SubSeq(position, 1, comma - 1)>>
             \o split(SubSeq(position, comma + 1, Len(position)))

\* player.Position?.split(',').map(p => p.trim()) || []
playerPositions(player) ==
    IF player.Position = Undef THEN <<>>
    ELSE LET parts == split(player.Position)
         IN  [i \in 1..Len(parts) |-> trim(parts[i])]

\* definition.positions.some(pos => playerPositions.some(pp => pos === pp || pp.includes(pos)))
isCompatible(player, definition) ==
    \E i \in 1..Len(definition.positions), j \in 1..Len(playerPositions(player)) :
        \/ definition.positions[i] = playerPositions(player)[j]
        \/ includes(playerPositions(player)[j], definition.positions[i])

RECURSIVE compatibleRoleScores(_, _, _)
compatibleRoleScores(player, allPlayers, definitions) ==
    IF definitions = <<>> THEN <<>>
    ELSE (IF isCompatible(player, Head(definitions))
          THEN <<calculateDetailedRoleScore(player, Head(definitions).name, allPlayers)>>
          ELSE <<>>)
         \o compatibleRoleScores(player, allPlayers, Tail(definitions))

DefaultRoleLimit == 3

\* limit is <<>> when the caller gives none
getBestRoles(player, allPlayers, limit) ==
    LET results == compatibleRoleScores(player, allPlayers, ROLE_DEFINITIONS)
        sorted == SecondOf(sortDescending(
                      [i \in 1..Len(results) |-> <<results[i].normalizedScore, results[i]>>]))
    IN  SubSeq(sorted, 1,
               IF limit = <<>> THEN IF DefaultRoleLimit < Len(sorted)
                                    THEN DefaultRoleLimit ELSE Len(sorted)
               ELSE IF limit[1] < Len(sorted) THEN limit[1] ELSE Len(sorted))

\* definition.positions.some(pos => playerPositions.includes(pos))
RECURSIVE filterEligible(_, _)
filterEligible(data, definition) ==
    IF data = <<>> THEN <<>>
    ELSE (IF \E i \in 1..Len(definition.positions) :
                definition.positions[i] \in Range(playerPositions(Head(data)))
          THEN <<Head(data)>> ELSE <<>>)
         \o filterEligible(Tail(data), definition)

filterPlayersByRole(data, role) ==
    IF RoleDefinition(role) = <<>> THEN data
    ELSE filterEligible(data, RoleDefinition(role)[1])

\* the rows with their roleScore; limit is <<>> when the caller gives none
rankPlayersForRole(data, role, limit) ==
    LET compatiblePlayers == filterPlayersByRole(data, role)
        maxScores == calculateMaxScores(compatiblePlayers)
        scored == [i \in 1..Len(compatiblePlayers) |->
                     [player |-> compatiblePlayers[i],
                      roleScore |-> calculateRoleScore(compatiblePlayers[i], role,
                                                       TRUE, <<maxScores>>)]]
        sorted == SecondOf(sortDescending(
                      [i \in 1..Len(scored) |-> <<scored[i].roleScore, scored[i]>>]))
    IN  IF RoleDefinition(role) = <<>> THEN <<>>
        \* limit ? sorted.slice(0, limit) : sorted
        ELSE IF limit = <<>> \/ limit[1] = 0 THEN sorted
        ELSE SubSeq(sorted, 1, IF limit[1] < Len(sorted) THEN limit[1] ELSE Len(sorted))

\* a row of the players file with the position and three of the metrics
ScoredRow(name, position, saveRate, conceded, passes) ==
    [Player |-> name, Position |-> position]
        @@ ("Save rate, %" :> saveRate)
        @@ ("Conceded goals per 90" :> conceded)
        @@ ("Passes per 90" :> passes)

\* a goalkeeper scoring 0.30, one scoring -0.20, a midfielder or goalkeeper
\* scoring 1.20 in goal, a left defensive midfielder and a row without position
KeeperA == ScoredRow(<<"a">>, GK, 1, 0, 0)
KeeperB == ScoredRow(<<"b">>, GK, 0, 2, 0)
KeeperC == ScoredRow(<<"c">>, <<"R", "C", "M", "F", ",", " ">> \o GK, 4, 0, 1)
MidD == ScoredRow(<<"d">>, LDMF, 0, 0, 3)
NoPositionE == ScoredRow(<<"e">>, Undef, 2, 0, 0)

ScoredPool == {KeeperA, KeeperB, KeeperC, MidD, NoPositionE}

Cohorts == SeqsUpTo(ScoredPool, MaxCohort)

RoleNames == {"Shot-Stopping Goalkeeper", "Carrilero", "Libero"}

\* a caller about to score a player, or to rank a cohort
InitScoring ==
    /\ db = EmptyDb
    /\ qs = EmptyQs
    /\ input = NoInput
    /\ loadKind = [kind |-> "none", dropped |-> FALSE]
    /\ now = 0
    /\ store = EmptyStore
    /\ loader = NewLoader
    /\ \E player \in ScoredPool, role \in RoleNames, cohort \in Cohorts,
          limit \in {<<>>, <<1>>} :
          out = [op |-> "call", player |-> player, role |-> role, cohort |-> cohort,
                 limit |-> limit]

CalculateDetailedRoleScore ==
    /\ out.op = "call"
    /\ out' = [op |-> "calculateDetailedRoleScore", player |-> out.player,
               role |-> out.role, cohort |-> out.cohort,
               result |-> calculateDetailedRoleScore(out.player, out.role, out.cohort)]
    /\ UNCHANGED <<db, qs, input, loadKind, now, store, loader>>

GetBestRoles ==
    /\ out.op = "call"
    /\ out' = [op |-> "getBestRoles", player |-> out.player, cohort |-> out.cohort,
               limit |-> out.limit,
               results |-> getBestRoles(out.player, out.cohort, out.limit)]
    /\ UNCHANGED <<db, qs, input, loadKind, now, store, loader>>

RankPlayersForRole ==
    /\ out.op = "call"
    /\ out' = [op |-> "rankPlayersForRole", role |-> out.role, cohort |-> out.cohort,
               limit |-> out.limit,
               ranking |-> rankPlayersForRole(out.cohort, out.role, out.limit)]
    /\ UNCHANGED <<db, qs, input, loadKind, now, store, loader>>

NextScoring ==
    \/ CalculateDetailedRoleScore
    \/ GetBestRoles
    \/ RankPlayersForRole

SpecScoring == InitScoring /\ [][NextScoring]_vars

(***************************************************************************)
(* Similarity search                                                       *)
(*                                                                         *)
(* Numbers are exact quotients [num, den] with den > 0; NaN is 0 / 0 and   *)
(* the infinities are 1 / 0 and -1 / 0.  A score is <<n>>, or <<>> for     *)
(* NaN.  The rows carry at most one metric, 'Goals per 90', so that every  *)
(* square root taken is the root of a square.                              *)
(***************************************************************************)

RECURSIVE GCD(_, _)
GCD(a, b) == IF b = 0 THEN a ELSE GCD(b, a % b)

\* the quotient num / den in lowest terms
Quotient(num, den) ==
    IF den = 0 THEN [num |-> IF num > 0 THEN 1 ELSE IF num < 0 THEN 0 - 1 ELSE 0, den |-> 0]
    ELSE LET f == Fraction(num, den)
             g == GCD(IF f.num < 0 THEN 0 - f.num ELSE f.num, f.den)
         IN  [num |-> f.num \div g, den |-> f.den \div g]

Plus(a, b) == Quotient(a.num * b.den + b.num * a.den, a.den * b.den)
Minus(a, b) == Quotient(a.num * b.den - b.num * a.den, a.den * b.den)
Times(a, b) == Quotient(a.num * b.num, a.den * b.den)
\* a / b: 0 / 0 is NaN, and a / 0 is an infinity
Over(a, b) == Quotient(a.num * b.den, a.den * b.num)

\* Math.abs
MathAbs(a) == [num |-> IF a.num < 0 THEN 0 - a.num ELSE a.num, den |-> a.den]

\* the root of the square r * r
IntegerRoot(n) == CHOOSE r \in 0..n : r * r = n

\* Math.sqrt
MathSqrt(a) == Quotient(IntegerRoot(a.num), IntegerRoot(a.den))

\* the metric columns the rows can carry, in the order of sort()
MetricColumns == <<"Goals per 90">>

RECURSIVE numericKeys(_, _)
numericKeys(sample, columns) ==
    IF columns = <<>> THEN <<>>
    ELSE (IF Head(columns) \in DOMAIN sample THEN <<Head(columns)>> ELSE <<>>)
         \o numericKeys(sample, Tail(columns))

\* the numeric keys of the first row that are neither excluded nor profile keys
extractNumericMetricKeys(data) ==
    IF Len(data) = 0 THEN <<>> ELSE numericKeys(data[1], MetricColumns)

\* data.map(p => Number(p[metricKey])): NaN where the row lacks the key
MetricColumn(data, key) ==
    [i \in 1..Len(data) |-> IF key \in DOMAIN data[i] THEN <<data[i][key]>> ELSE <<>>]

\* normalizeValue(Number(player[key]) || 0, bounds[key]), in lowest terms
Normalized(player, key, bounds) ==
    LET v == normalizeValue(<<MetricValue(player, key)>>, bounds[key])
    IN  Quotient(v.num, v.den)

\* the term a distance function adds for one metric
termOf(kind, valA, valB) ==
    CASE kind = "squaredDiff" -> Times(Minus(valA, valB), Minus(valA, valB))
      [] kind = "absDiff" -> MathAbs(Minus(valA, valB))
      [] kind = "product" -> Times(valA, valB)
      [] kind = "squareOfA" -> Times(valA, valA)
      [] kind = "squareOfB" -> Times(valB, valB)

\* metricKeys.forEach: the sum over the keys of the term of valA and valB
RECURSIVE sumOver(_, _, _, _, _)
sumOver(kind, playerA, playerB, metricKeys, bounds) ==
    IF metricKeys = <<>> THEN Quotient(0, 1)
    ELSE Plus(termOf(kind, Normalized(playerA, Head(metricKeys), bounds),
                     Normalized(playerB, Head(metricKeys), bounds)),
              sumOver(kind, playerA, playerB, Tail(metricKeys), bounds))

euclideanDistance(playerA, playerB, metricKeys, bounds) ==
    MathSqrt(sumOver("squaredDiff", playerA, playerB, metricKeys, bounds))

\* every metric weighs 1: no custom weight, and the category weight of the column
weightedEuclideanDistance(playerA, playerB, metricKeys, bounds) ==
    LET totalWeight == Len(metricKeys)
    IN  MathSqrt(Over(sumOver("squaredDiff", playerA, playerB, metricKeys, bounds),
                      Quotient(IF totalWeight = 0 THEN 1 ELSE totalWeight, 1)))

manhattanDistance(playerA, playerB, metricKeys, bounds) ==
    Over(sumOver("absDiff", playerA, playerB, metricKeys, bounds),
         Quotient(Len(metricKeys), 1))

cosineSimilarity(playerA, playerB, metricKeys, bounds) ==
    LET dotProduct == sumOver("product", playerA, playerB, metricKeys, bounds)
        normA == sumOver("squareOfA", playerA, playerB, metricKeys, bounds)
        normB == sumOver("squareOfB", playerA, playerB, metricKeys, bounds)
        denominator == Times(MathSqrt(normA), MathSqrt(normB))
    IN  IF denominator.num = 0 THEN Quotient(1, 1)
        ELSE Minus(Quotient(1, 1), Over(dotProduct, denominator))

DefaultMaxResults == 10
DefaultMinMinutes == 450

\* an option is <<>> when the caller leaves it out
OptionOr(option, default) == IF option = <<>> THEN default ELSE option[1]

\* a filter that forgets the positions
passesFilters_anyPosition(p, referencePlayer, options) ==
    /\ ~(p.Player = referencePlayer.Player /\ p.Team = referencePlayer.Team)
    /\ ~(options.excludeSameTeam /\ p.Team = referencePlayer.Team)
    /\ ~(MetricValue(p, "Minutes played") < OptionOr(options.minMinutes, DefaultMinMinutes))

\* candidates.filter(...) of findSimilarPlayers, for one candidate
passesFilters(p, referencePlayer, options) ==
    LET refPositions == playerPositions(referencePlayer)
        candPositions == playerPositions(p)
    IN  /\ ~(p.Player = referencePlayer.Player /\ p.Team = referencePlayer.Team)
        /\ options.samePositionOnly =>
              \E i \in 1..Len(refPositions) : refPositions[i] \in Range(candPositions)
        /\ ~(options.excludeSameTeam /\ p.Team = referencePlayer.Team)
        /\ ~(MetricValue(p, "Minutes played") < OptionOr(options.minMinutes, DefaultMinMinutes))

RECURSIVE filterCandidates(_, _, _)
filterCandidates(candidates, referencePlayer, options) ==
    IF candidates = <<>> THEN <<>>
    ELSE (IF passesFilters(Head(candidates), referencePlayer, options)
          THEN <<Head(candidates)>> ELSE <<>>)
         \o filterCandidates(Tail(candidates), referencePlayer, options)

\* the switch on the algorithm
distanceBy(algorithm, referencePlayer, candidate, metricKeys, bounds) ==
    CASE algorithm = "cosine" ->
            cosineSimilarity(referencePlayer, candidate, metricKeys, bounds)
      [] algorithm = "manhattan" ->
            manhattanDistance(referencePlayer, candidate, metricKeys, bounds)
      [] algorithm = "weighted" ->
            weightedEuclideanDistance(referencePlayer, candidate, metricKeys, bounds)
      [] OTHER -> euclideanDistance(referencePlayer, candidate, metricKeys, bounds)

\* Math.max(0, Math.round(100 * (1 - (distance / (maxPossibleDistance * 0.6)))))
similarityScore(distance, metricCount) ==
    LET maxPossibleDistance == MathSqrt(Quotient(metricCount, 1))
        x == Times(Quotient(100, 1),
                   Minus(Quotient(1, 1),
                         Over(distance, Times(maxPossibleDistance, Quotient(3, 5)))))
        \* Math.round keeps NaN and the infinities
        rounded == IF x.den = 0 THEN x ELSE Quotient(MathRound(x.num, x.den), 1)
    IN  \* Math.max(0, NaN) is NaN
        IF rounded.den = 0 /\ rounded.num = 0 THEN NaN
        ELSE IF rounded.num < 0 THEN Quotient(0, 1) ELSE rounded

\* an insertion that puts the result after the ones of its own score
RECURSIVE insertByScore_afterTies(_, _)
insertByScore_afterTies(result, sorted) ==
    IF sorted = <<>> THEN <<result>>
    ELSE IF \/ result.score.den = 0
            \/ Head(sorted).score.den = 0
            \/ Head(sorted).score.num * result.score.den
                   < result.score.num * Head(sorted).score.den
         THEN <<result>> \o sorted
    ELSE <<Head(sorted)>> \o insertByScore_afterTies(result, Tail(sorted))

\* the result goes before the first one whose score is not above its own; a
\* comparison with NaN counts as a tie
RECURSIVE insertByScore(_, _)
insertByScore(result, sorted) ==
    IF sorted = <<>> THEN <<result>>
    ELSE IF \/ result.score.den = 0
            \/ Head(sorted).score.den = 0
            \/ Head(sorted).score.num * result.score.den
                   <= result.score.num * Head(sorted).score.den
         THEN <<result>> \o sorted
    ELSE <<Head(sorted)>> \o insertByScore(result, Tail(sorted))

\* results.sort((a, b) => b.score - a.score)
RECURSIVE sortByScore(_)
sortByScore(results) ==
    IF results = <<>> THEN <<>>
    ELSE insertByScore(Head(results), sortByScore(Tail(results)))

findSimilarPlayers(referencePlayer, candidates, options) ==
    LET filteredCandidates == filterCandidates(candidates, referencePlayer, options)
        metricKeys == extractNumericMetricKeys(candidates)
        bounds == [key \in Range(metricKeys) |->
                      calculateMetricBounds(MetricColumn(candidates, key))]
        results ==
            [i \in 1..Len(filteredCandidates) |->
                LET distance == distanceBy(options.algorithm, referencePlayer,
                                           filteredCandidates[i], metricKeys, bounds)
                IN  [player |-> filteredCandidates[i],
                     score |-> similarityScore(distance, Len(metricKeys)),
                     distance |-> distance,
                     matchedMetrics |-> Len(metricKeys)]]
    IN  slice(sortByScore(results), OptionOr(options.maxResults, DefaultMaxResults))

MaxCandidates == 3

\* a row of the players file: the profile and, where goals is <<n>>, one metric
SimilarRow(name, team, position, minutes, goals) ==
    IF goals = <<>>
    THEN [Player |-> name, Team |-> team, Position |-> position]
            @@ ("Minutes played" :> minutes)
    ELSE [Player |-> name, Team |-> team, Position |-> position]
            @@ ("Minutes played" :> minutes) @@ ("Goals per 90" :> goals[1])

\* a striker, a goalkeeper of the same team, a striker of another team short
\* of minutes, and a striker or goalkeeper of that team without the metric
StrikerA == SimilarRow("a", "c", ST, 900, <<2>>)
KeeperOfC == SimilarRow("b", "c", GK, 900, <<0>>)
StrikerShort == SimilarRow("d", "e", ST, 449, <<1>>)
StrikerOrKeeper == SimilarRow("f", "e", ST \o <<",", " ">> \o GK, 450, <<>>)

SimilarPool == {StrikerA, KeeperOfC, StrikerShort, StrikerOrKeeper}

Algorithms == {"euclidean", "cosine", "manhattan", "weighted"}

SimilarityOptions ==
    [maxResults : {<<>>, <<0>>, <<1>>, <<2>>}, samePositionOnly : BOOLEAN, excludeSameTeam : BOOLEAN,
     minMinutes : {<<>>, <<0>>}, algorithm : Algorithms]

\* a caller about to look for the players similar to a reference player
InitSimilarity ==
    /\ db = EmptyDb
    /\ qs = EmptyQs
    /\ input = NoInput
    /\ loadKind = [kind |-> "none", dropped |-> FALSE]
    /\ now = 0
    /\ store = EmptyStore
    /\ loader = NewLoader
    /\ \E referencePlayer \in SimilarPool, candidates \in SeqsUpTo(SimilarPool, MaxCandidates),
          options \in SimilarityOptions :
          out = [op |-> "call", referencePlayer |-> referencePlayer,
                 candidates |-> candidates, options |-> options]

FindSimilarPlayers ==
    /\ out.op = "call"
    /\ out' = [op |-> "findSimilarPlayers", referencePlayer |-> out.referencePlayer,
               candidates |-> out.candidates, options |-> out.options,
               results |-> findSimilarPlayers(out.referencePlayer, out.candidates,
                                              out.options)]
    /\ UNCHANGED <<db, qs, input, loadKind, now, store, loader>>

NextSimilarity == FindSimilarPlayers

SpecSimilarity == InitSimilarity /\ [][NextSimilarity]_vars

(***************************************************************************)
(* K-means clustering                                                      *)
(*                                                                         *)
(* A vector is a sequence of exact quotients in lowest terms.  Cluster     *)
(* indexes count from 0 as in the code; centroids[idx + 1] is the centroid *)
(* of cluster idx.  Math.random is the permutation `shuffled` of the       *)
(* input positions.  The label of a cluster is not carried.                *)
(***************************************************************************)

MaxClusterRows == 3
MaxClusters == 3
MaxIterations == 3

\* the sum of Math.pow(a[i] - b[i], 2): the square of the distance, which
\* orders the centroids as the distance does
RECURSIVE squaredDistance(_, _)
squaredDistance(a, b) ==
    IF a = <<>> THEN Quotient(0, 1)
    ELSE Plus(Times(Minus(Head(a), Head(b)), Minus(Head(a), Head(b))),
              squaredDistance(Tail(a), Tail(b)))

IsLess(a, b) == a.num * b.den < b.num * a.den

\* the first centroid at the smallest distance, and 0 without centroids
nearestCentroid(vector, centroids) ==
    IF centroids = <<>> THEN 0
    ELSE CHOOSE idx \in 0..(Len(centroids) - 1) :
            \A other \in 0..(Len(centroids) - 1) :
                LET dist == squaredDistance(vector, centroids[idx + 1])
                    otherDist == squaredDistance(vector, centroids[other + 1])
                IN  /\ ~IsLess(otherDist, dist)
                    /\ other < idx => IsLess(dist, otherDist)

\* vectors.filter((_, i) => assignments[i] === clusterIdx)
RECURSIVE membersOf(_, _, _)
membersOf(items, assignments, clusterIdx) ==
    IF items = <<>> THEN <<>>
    ELSE (IF Head(assignments) = clusterIdx THEN <<Head(items)>> ELSE <<>>)
         \o membersOf(Tail(items), Tail(assignments), clusterIdx)

RECURSIVE sumOfDimension(_, _)
sumOfDimension(clusterVectors, dimIdx) ==
    IF clusterVectors = <<>> THEN Quotient(0, 1)
    ELSE Plus(Head(clusterVectors)[dimIdx], sumOfDimension(Tail(clusterVectors), dimIdx))

\* the per-dimension mean of the vectors
meanVector(clusterVectors) ==
    [dimIdx \in 1..Len(clusterVectors[1]) |->
        Over(sumOfDimension(clusterVectors, dimIdx), Quotient(Len(clusterVectors), 1))]

\* centroids.map(...): the mean of the members, the old centroid without members
recomputeCentroids(vectors, assignments, centroids) ==
    [c \in 1..Len(centroids) |->
        LET clusterVectors == membersOf(vectors, assignments, c - 1)
        IN  IF Len(clusterVectors) = 0 THEN centroids[c] ELSE meanVector(clusterVectors)]

\* the for loop, from the round `iteration` on; rounds counts the assignment
\* rounds made
RECURSIVE kMeansLoop(_, _, _, _, _)
kMeansLoop(vectors, centroids, assignments, iteration, maxIterations) ==
    IF ~(iteration < maxIterations)
    THEN [centroids |-> centroids, assignments |-> assignments, rounds |-> iteration]
    ELSE LET newAssignments ==
                 [i \in 1..Len(vectors) |-> nearestCentroid(vectors[i], centroids)]
         IN  IF assignments = newAssignments
             THEN [centroids |-> centroids, assignments |-> assignments,
                   rounds |-> iteration + 1]
             ELSE kMeansLoop(vectors,
                             recomputeCentroids(vectors, newAssignments, centroids),
                             newAssignments, iteration + 1, maxIterations)

\* a guard that rejects only an empty metric list
isRejected_emptyMetricsOnly(data, config) == Len(config.metrics) = 0

\* data.length < k || metrics.length === 0
isRejected(data, config) == Len(data) < config.k \/ Len(config.metrics) = 0

\* a filter that keeps every cluster
nonEmptyClusters_all(results) == results

\* results.filter(r => r.size > 0)
RECURSIVE nonEmptyClusters(_)
nonEmptyClusters(results) ==
    IF results = <<>> THEN <<>>
    ELSE (IF Head(results).size > 0 THEN <<Head(results)>> ELSE <<>>)
         \o nonEmptyClusters(Tail(results))

RECURSIVE insertBySize(_, _)
insertBySize(result, sorted) ==
    IF sorted = <<>> THEN <<result>>
    ELSE IF Head(sorted).size <= result.size THEN <<result>> \o sorted
    ELSE <<Head(sorted)>> \o insertBySize(result, Tail(sorted))

\* .sort((a, b) => b.size - a.size)
RECURSIVE sortBySize(_)
sortBySize(results) ==
    IF results = <<>> THEN <<>>
    ELSE insertBySize(Head(results), sortBySize(Tail(results)))

\* the vectors of the players in normalized metric space
normalizedVectors(data, metrics) ==
    LET bounds == [m \in Range(metrics) |-> calculateMetricBounds(MetricColumn(data, m))]
    IN  [i \in 1..Len(data) |->
            [d \in 1..Len(metrics) |-> Normalized(data[i], metrics[d], bounds)]]

\* shuffled is the order [...vectors].sort(() => Math.random() - 0.5) leaves
kMeansClustering(data, config, shuffled) ==
    IF isRejected(data, config) THEN [results |-> <<>>, rounds |-> 0]
    ELSE
    LET vectors == normalizedVectors(data, config.metrics)
        taken == IF config.k < Len(data) THEN config.k ELSE Len(data)
        \* shuffled.slice(0, k).map(v => [...v.vector])
        initial == [c \in 1..taken |-> vectors[shuffled[c]]]
        final == kMeansLoop(vectors, initial, [i \in 1..Len(vectors) |-> 0], 0,
                            config.maxIterations)
        results ==
            [c \in 1..Len(final.centroids) |->
                LET clusterPlayers == membersOf(data, final.assignments, c - 1)
                IN  [clusterId |-> c - 1,
                     centroid |-> final.centroids[c],
                     players |-> clusterPlayers,
                     size |-> Len(clusterPlayers)]]
    IN  [results |-> sortBySize(nonEmptyClusters(results)), rounds |-> final.rounds]

\* a row of the players file with one metric
ClusterRow(name, goals) ==
    [Player |-> name, Team |-> "c", Position |-> ST] @@ ("Goals per 90" :> goals)

ClusterPool == {ClusterRow("a", 0), ClusterRow("b", 1), ClusterRow("d", 3)}

ClusterConfigs ==
    [k : 0..MaxClusters, maxIterations : 0..MaxIterations,
     metrics : {<<>>, <<"Goals per 90">>}]

\* the orders a shuffle of n vectors can leave
Shuffles(n) == {p \in [1..n -> 1..n] : \A i, j \in 1..n : p[i] = p[j] => i = j}

\* a caller about to cluster a pool of players
InitClustering ==
    /\ db = EmptyDb
    /\ qs = EmptyQs
    /\ input = NoInput
    /\ loadKind = [kind |-> "none", dropped |-> FALSE]
    /\ now = 0
    /\ store = EmptyStore
    /\ loader = NewLoader
    /\ \E data \in SeqsUpTo(ClusterPool, MaxClusterRows), config \in ClusterConfigs :
          \E shuffled \in Shuffles(Len(data)) :
              out = [op |-> "call", data |-> data, config |-> config,
                     shuffled |-> shuffled]

KMeansClustering ==
    /\ out.op = "call"
    /\ LET returned == kMeansClustering(out.data, out.config, out.shuffled)
       IN  out' = [op |-> "kMeansClustering", data |-> out.data, config |-> out.config,
                   shuffled |-> out.shuffled, results |-> returned.results,
                   rounds |-> returned.rounds]
    /\ UNCHANGED <<db, qs, input, loadKind, now, store, loader>>

NextClustering == KMeansClustering

SpecClustering == InitClustering /\ [][NextClustering]_vars

(***************************************************************************)
(* dataStore                                                               *)
(*                                                                         *)
(* The state object keeps players, teams and shots; isLoading, errors and  *)
(* lastUpdated are written and never read by the computed getters.  A      *)
(* computed value is <<>> while it is null and <<value>> once stored.  The *)
(* dataset statistics keep the counts, the leagues and the positions; the  *)
(* seasons, countries and metric count are computed from the players as    *)
(* the leagues are.                                                        *)
(***************************************************************************)

\* new Set(names): the names in the order of their first occurrence
RECURSIVE uniqueNames(_)
uniqueNames(names) ==
    IF names = <<>> THEN <<>>
    ELSE SetAdd(uniqueNames(SubSeq(names, 1, Len(names) - 1)), names[Len(names)])

\* .filter(Boolean)
RECURSIVE filterBoolean(_)
filterBoolean(names) ==
    IF names = <<>> THEN <<>>
    ELSE (IF Unusable(Head(names)) THEN <<>> ELSE <<Head(names)>>)
         \o filterBoolean(Tail(names))

extractLeagues(data) ==
    sort(uniqueNames(filterBoolean([i \in 1..Len(data) |-> data[i].League])))

extractTeams(data) ==
    sort(uniqueNames(filterBoolean([i \in 1..Len(data) |-> data[i].Team])))

RECURSIVE allPositions(_)
allPositions(data) ==
    IF data = <<>> THEN <<>>
    ELSE (IF Unusable(Head(data).Position) THEN <<>> ELSE playerPositions(Head(data)))
         \o allPositions(Tail(data))

extractPositions(data) == sort(uniqueNames(allPositions(data)))

invalidateCache(s) == [s EXCEPT !.computedCache = EmptyStore.computedCache]

setPlayers(s, players) == invalidateCache([s EXCEPT !.players = players])

setTeams(s, teams) == [s EXCEPT !.teams = teams]

setShots(s, shots) == [s EXCEPT !.shots = shots]

resetStore(s) == invalidateCache([s EXCEPT !.players = <<>>, !.teams = <<>>, !.shots = <<>>])

\* a computed getter gives the store it leaves and the value it returns
getLeagues(s) ==
    IF s.computedCache.leagues = <<>>
    THEN [store |-> [s EXCEPT !.computedCache.leagues = <<extractLeagues(s.players)>>],
          result |-> extractLeagues(s.players)]
    ELSE [store |-> s, result |-> s.computedCache.leagues[1]]

\* the teams of the players and of the team statistics, sorted
combinedTeams(s) ==
    sort(uniqueNames(extractTeams(s.players)
                     \o [i \in 1..Len(s.teams) |-> s.teams[i].team]))

getTeams(s) ==
    IF s.computedCache.teams = <<>>
    THEN [store |-> [s EXCEPT !.computedCache.teams = <<combinedTeams(s)>>],
          result |-> combinedTeams(s)]
    ELSE [store |-> s, result |-> s.computedCache.teams[1]]

getPositions(s) ==
    IF s.computedCache.positions = <<>>
    THEN [store |-> [s EXCEPT !.computedCache.positions = <<extractPositions(s.players)>>],
          result |-> extractPositions(s.players)]
    ELSE [store |-> s, result |-> s.computedCache.positions[1]]

getDatasetStats(s) ==
    IF s.computedCache.datasetStats = <<>>
    THEN LET teams == getTeams(s)
             leagues == getLeagues(teams.store)
             positions == getPositions(leagues.store)
             stats == [playerCount |-> Len(s.players),
                       teamCount |-> Len(teams.result),
                       shotCount |-> Len(s.shots),
                       leagues |-> leagues.result,
                       positions |-> positions.result]
         IN  [store |-> [positions.store EXCEPT !.computedCache.datasetStats = <<stats>>],
              result |-> stats]
    ELSE [store |-> s, result |-> s.computedCache.datasetStats[1]]

\* what the callers of the setters hand over
StorePlayers == { <<>>, <<AbOfC>>, <<AOfBc, NamelessOfD>> }
StoreTeams == { <<TeamRow(<<"d">>, LeagueB)>>,
                <<TeamRow(<<"C", ".">>, LeagueA), TeamRow(<<"d">>, LeagueB)>> }
StoreShots == { <<>>, <<ShotRow(<<"a", "b">>, <<"c">>)>> }

Unread == UNCHANGED <<db, qs, input, loadKind, now, loader>>

SetPlayers(players) ==
    /\ store' = setPlayers(store, players)
    /\ out' = [op |-> "setPlayers"]
    /\ Unread

SetTeams(teams) ==
    /\ store' = setTeams(store, teams)
    /\ out' = [op |-> "setTeams"]
    /\ Unread

SetShots(shots) ==
    /\ store' = setShots(store, shots)
    /\ out' = [op |-> "setShots"]
    /\ Unread

ResetStore ==
    /\ store' = resetStore(store)
    /\ out' = [op |-> "resetStore"]
    /\ Unread

GetLeagues ==
    /\ store' = getLeagues(store).store
    /\ out' = [op |-> "getLeagues", result |-> getLeagues(store).result]
    /\ Unread

GetTeams ==
    /\ store' = getTeams(store).store
    /\ out' = [op |-> "getTeams", result |-> getTeams(store).result]
    /\ Unread

GetPositions ==
    /\ store' = getPositions(store).store
    /\ out' = [op |-> "getPositions", result |-> getPositions(store).result]
    /\ Unread

GetDatasetStats ==
    /\ store' = getDatasetStats(store).store
    /\ out' = [op |-> "getDatasetStats", result |-> getDatasetStats(store).result]
    /\ Unread

NextStore ==
    \/ \E players \in StorePlayers : SetPlayers(players)
    \/ \E teams \in StoreTeams : SetTeams(teams)
    \/ \E shots \in StoreShots : SetShots(shots)
    \/ ResetStore
    \/ GetLeagues
    \/ GetTeams
    \/ GetPositions
    \/ GetDatasetStats

SpecStore == Init /\ [][NextStore]_vars

(***************************************************************************)
(* DataLoader                                                              *)
(*                                                                         *)
(* A load is one call of performLoad; loads[id] is the state of its        *)
(* promise, and the DataLoadResult of a fulfilled load is named by its id. *)
(* A call of loadAllData runs without interruption up to its await or      *)
(* return.  The caller that started a load awaits its promise first, so    *)
(* when the promise settles its continuation (data and isLoaded on         *)
(* success, the finally block in both cases) runs before any other caller  *)
(* can look at the loader: settling and continuation are one step.  What   *)
(* performLoad does to the entity store and the query service is the       *)
(* action Load.                                                            *)
(***************************************************************************)

MaxCalls == 3

\* a call record: who called, the loads as they were at the call, the load the
\* call started (0 for none) and what its promise follows: the cached data of
\* a load, or the promise of a load
CallRecord(kind, l, started, returns) ==
    [kind |-> kind, loadsBefore |-> l.loads, started |-> started, returns |-> returns]

\* a loadAllData that does not look for a load in flight
loadAllData_ignoresInFlight(l, kind) ==
    IF l.isLoaded /\ l.data # <<>>
    THEN [l EXCEPT !.calls = Append(@, CallRecord(kind, l, 0, <<"data", l.data[1]>>))]
    ELSE LET id == Len(l.loads) + 1
         IN  [l EXCEPT !.loads = Append(@, "pending"),
                       !.loadingPromise = <<id>>,
                       !.calls = Append(@, CallRecord(kind, l, id, <<"promise", id>>))]

\* loadAllData up to its first await; kind names the caller
loadAllData(l, kind) ==
    IF l.isLoaded /\ l.data # <<>>
    THEN [l EXCEPT !.calls = Append(@, CallRecord(kind, l, 0, <<"data", l.data[1]>>))]
    ELSE IF l.loadingPromise # <<>>
    THEN [l EXCEPT !.calls = Append(@, CallRecord(kind, l, 0,
                                                  <<"promise", l.loadingPromise[1]>>))]
    ELSE LET id == Len(l.loads) + 1
         IN  [l EXCEPT !.loads = Append(@, "pending"),
                       !.loadingPromise = <<id>>,
                       !.calls = Append(@, CallRecord(kind, l, id, <<"promise", id>>))]

reload(l) == loadAllData([l EXCEPT !.isLoaded = FALSE, !.data = <<>>], "reload")

\* the promise of load id is fulfilled and the caller that started it resumes
performLoadResolves(l, id) ==
    [l EXCEPT !.loads[id] = "fulfilled",
              !.data = <<id>>,
              !.isLoaded = TRUE,
              !.loadingPromise = <<>>]

\* the promise of load id is rejected and the caller that started it runs finally
performLoadRejects(l, id) ==
    [l EXCEPT !.loads[id] = "rejected",
              !.loadingPromise = <<>>]

Unloaded == UNCHANGED <<db, qs, input, loadKind, now, store>>

LoadAllData ==
    /\ Len(loader.calls) < MaxCalls
    /\ loader' = loadAllData(loader, "loadAllData")
    /\ out' = [op |-> "loadAllData"]
    /\ Unloaded

Reload ==
    /\ Len(loader.calls) < MaxCalls
    /\ loader' = reload(loader)
    /\ out' = [op |-> "reload"]
    /\ Unloaded

PerformLoadResolves ==
    \E id \in 1..Len(loader.loads) :
        /\ loader.loads[id] = "pending"
        /\ loader' = performLoadResolves(loader, id)
        /\ out' = [op |-> "resolved", load |-> id]
        /\ Unloaded

PerformLoadRejects ==
    \E id \in 1..Len(loader.loads) :
        /\ loader.loads[id] = "pending"
        /\ loader' = performLoadRejects(loader, id)
        /\ out' = [op |-> "rejected", load |-> id]
        /\ Unloaded

NextLoader ==
    \/ LoadAllData
    \/ Reload
    \/ PerformLoadResolves
    \/ PerformLoadRejects

SpecLoader == Init /\ [][NextLoader]_vars

(***************************************************************************)
(* The entity store and the indexes after a load                           *)
(***************************************************************************)

Indexes(q) ==
    [teamIndex |-> q.teamIndex, leagueIndex |-> q.leagueIndex,
     positionIndex |-> q.positionIndex, sortedTeamNames |-> q.sortedTeamNames]

Players == Range(MapValues(db.players))
Teams == Range(MapValues(db.teams))
Shots == Range(MapValues(db.shots))

UsablePlayerRows == {p \in Range(input.players) : ~Unusable(p.Player)}

\* what the specification calls the logical row of a player
LogicalRow(p) == <<normalizeName(p.Player), normalizeName(OrEmpty(p.Team)), OrEmpty(p.League)>>

\* C1: loading the same players, teams and shots again leaves the entity store
\* and the query indexes exactly as the first load left them
C1_ReloadIsIdempotent ==
    [][(out'.op = "load" /\ input.loaded /\ input' = input)
          => (db' = db /\ Indexes(qs') = Indexes(qs))]_vars

C1_Witness ==
    /\ loadKind.kind = "same"
    /\ Len(db.players) = 2
    /\ db.teams # <<>>
    /\ db.shots # <<>>
    /\ qs.teamIndex # <<>>

\* C2: two player rows that differ in normalized name, team or league never
\* share one identifier: the entity stored under a row's identifier is the
\* entity of that logical row
C2_IdentifiersAreUnique ==
    \A p \in UsablePlayerRows :
        LET id == generateId("player", p.Player, OrEmpty(p.Team))
        IN  MapHas(db.players, id)
            /\ LogicalRow(MapGet(db.players, id).rawData) = LogicalRow(p)

\* C3: after a load the three collections and every index hold exactly what
\* the loaded rows give in an empty store, whatever was loaded before
C3_LoadIsAtomicSwap ==
    input.loaded =>
        /\ db = initialize(EmptyDb, input.players, input.teams, input.shots)
        /\ Indexes(qs) =
             Indexes(queryInitialize(EmptyQs, input.players, input.teams, input.shots))
        /\ \A e \in Players : e.rawData \in Range(input.players)
        /\ \A e \in Shots : e.rawData \in Range(input.shots)
        /\ \A e \in Teams :
             \/ e.rawData # <<>> /\ e.rawData[1] \in Range(input.teams)
             \/ e.rawData = <<>> /\ \E p \in Range(input.players) : p.Team = e.name
        /\ \A i \in 1..Len(qs.teamIndex) :
             Range(qs.teamIndex[i].v.players) \subseteq Range(input.players)

C3_Witness ==
    /\ loadKind.kind = "swap"
    /\ loadKind.dropped
    /\ db.players # <<>>
    /\ qs.teamIndex # <<>>

\* C4: every player whose team reference is not null refers to a team of the
\* team collection
C4_TeamReferenceExists ==
    \A e \in Players : e.teamId # Null => MapHas(db.teams, e.teamId)

\* a player of "c" resolved to the team the statistics call "C."
C4_Witness ==
    \E e \in Players :
        /\ e.teamId # Null
        /\ MapHas(db.teams, e.teamId)
        /\ MapGet(db.teams, e.teamId).name # e.teamName

NameMatches(shotName, playerName) ==
    \/ includes(playerName, shotName)
    \/ includes(shotName, playerName)

\* C5: a shot whose player name normalizes to the empty string, or matches no
\* loaded player, has a null player reference
C5_UnresolvedIsNull ==
    \A s \in Shots :
        LET normalized == normalizeName(s.playerName)
        IN  (\/ normalized = <<>>
             \/ \A i \in 1..Len(db.normalizedPlayerNames) :
                   ~NameMatches(normalized, db.normalizedPlayerNames[i].k))
            => s.playerId = Null

\* C6: a row without its identifying field is dropped: no player and no team
\* is created from it
C6_RowWithoutNameIsDropped ==
    /\ \A e \in Players : ~Unusable(e.rawData.Player)
    /\ \A e \in Teams :
         \/ e.rawData # <<>> /\ ~Unusable(e.rawData[1].team)
         \/ e.rawData = <<>> /\ \E p \in UsablePlayerRows : p.Team = e.name

Expired(entry, t) == t - entry.timestamp > CACHE_TTL

\* C7: a lookup within the time-to-live of the entry it finds returns the stored
\* value and leaves the entry as it is; a lookup that finds the entry expired
\* returns the recomputed value and leaves it stored with the time of the lookup
C7_CacheHitOrWholeReplacement ==
    out.op = "teamStats" =>
        LET after == CacheEntry(qs.cache, cacheKey(out.team))
            fresh == aggregate(getTeamPlayers(qs, out.team))
        IN  /\ (out.before # <<>> /\ ~Expired(out.before[1], out.at))
                 => (out.result = out.before[1].data /\ after = out.before)
            /\ (out.before # <<>> /\ Expired(out.before[1], out.at))
                 => (out.result = fresh
                     /\ after = <<[data |-> fresh, timestamp |-> out.at]>>)

IsSorted(names) == \A i \in 1..(Len(names) - 1) : ~StringLess(names[i + 1], names[i])

LimitOf(o) ==
    IF o.limit # <<>> THEN o.limit[1]
    ELSE IF o.op = "searchTeams" THEN DefaultTeamLimit
    ELSE IF o.op = "queryService.searchPlayers" THEN DefaultPlayerLimit
    ELSE Len(o.names)

\* C8: a search returns at most limit names (the default limit when the caller
\* gives none), in alphabetical order
C8_SearchRespectsLimitAndOrder ==
    out.op \in {"searchTeams", "queryService.searchPlayers", "database.searchPlayers"} =>
        /\ Len(out.names) <= LimitOf(out)
        /\ IsSorted(out.names)

\* C9: the bounds of a metric over a cohort have max >= min, and max = min + 1
\* when all the values of the cohort are equal
C9_BoundsAreOrdered ==
    out.op = "calculateMetricBounds" =>
        LET values == Range(finiteValues(out.column))
        IN  /\ out.bounds.max >= out.bounds.min
            /\ Cardinality(values) <= 1 => out.bounds.max = out.bounds.min + 1

C9_Witness ==
    /\ out.op = "calculateMetricBounds"
    /\ Len(finiteValues(out.column)) >= 2
    /\ Cardinality(Range(finiteValues(out.column))) = 1
    /\ out.bounds.max = out.bounds.min + 1

\* C10: normalize(v, b) lies in [0, 1] for every value and every bounds
C10_NormalizedInUnitInterval ==
    out.op = "normalizeValue" =>
        /\ out.normalized.den > 0
        /\ 0 <= out.normalized.num
        /\ out.normalized.num <= out.normalized.den

\* C11: the percentile of a value in a list of values is
\* round((countBelow + 0.5 * countEqual) / total * 100), within 0..100; the
\* percentile of 3 in 1, 2, 3, 4 is 63
C11_PercentileIsMidRank ==
    out.op = "calculatePercentile" =>
        LET n == Len(out.allValues)
            below == Cardinality({i \in 1..n : out.allValues[i] < out.value})
            equal == Cardinality({i \in 1..n : out.allValues[i] = out.value})
        IN  /\ n > 0 =>
                 \* p is the nearest integer to (2 * below + equal) * 50 / n
                 /\ 2 * n * out.percentile <= (2 * below + equal) * 100 + n
                 /\ (2 * below + equal) * 100 + n < 2 * n * (out.percentile + 1)
            /\ 0 <= out.percentile /\ out.percentile <= 100
            /\ (out.value = 3 /\ out.allValues = <<1, 2, 3, 4>>) => out.percentile = 63

\* the percentile of 3 in 1, 2, 3, 4
C11_Witness ==
    /\ out.op = "calculatePercentile"
    /\ out.value = 3
    /\ out.allValues = <<1, 2, 3, 4>>
    /\ out.percentile = 63

\* C12: over a fixed list of values the percentile does not decrease when the
\* value grows
C12_PercentileIsMonotone ==
    out.op = "calculatePercentile" =>
        \A v1 \in (0 - 1)..(MaxValue + 1) :
            v1 <= out.value => calculatePercentile(v1, out.allValues) <= out.percentile

\* a value above some and equal to others, with a smaller value ranked lower
C12_Witness ==
    /\ out.op = "calculatePercentile"
    /\ \E i, j \in 1..Len(out.allValues) :
          out.allValues[i] < out.value /\ out.allValues[j] = out.value
    /\ calculatePercentile(out.value - 1, out.allValues) < out.percentile

\* the detailed score of a role the table has
Scored == out.op = "calculateDetailedRoleScore" /\ RoleDefinition(out.role) # <<>>

\* C13: on degenerate input (an empty cohort included) the percentile of a role
\* score result is a number, never NaN
C13_DegenerateInputGivesNumbers ==
    /\ Scored => out.result.percentile # <<>>
    /\ out.op = "getBestRoles" =>
         \A i \in 1..Len(out.results) : out.results[i].percentile # <<>>

RawScores(cohort, role) ==
    [i \in 1..Len(cohort) |-> weightedSum(cohort[i], RoleDefinition(role)[1].metrics)]

Abs(n) == IF n < 0 THEN 0 - n ELSE n

\* C14: the normalized score is round(100 * rawScore / M), M being the highest
\* raw score of the role in the cohort of the call
C14_NormalizedAgainstCohortMaximum ==
    Scored =>
        LET raw == weightedSum(out.player, RoleDefinition(out.role)[1].metrics)
            scores == Range(RawScores(out.cohort, out.role))
            M == CHOOSE m \in scores : \A v \in scores : v <= m
            n == out.result.normalizedScore
        IN  /\ out.result.rawScore = raw
            /\ (scores # {} /\ M > 0) =>
                  \* n is the nearest integer to 100 * raw / M
                  /\ 2 * M * n <= 200 * raw + M
                  /\ 200 * raw + M < 2 * M * (n + 1)

\* C15: the normalized role score of every member of the cohort is in 0..100
C15_NormalizedScoreInRange ==
    /\ (Scored /\ out.player \in Range(out.cohort)) =>
          (0 <= out.result.normalizedScore /\ out.result.normalizedScore <= 100)
    /\ out.op = "rankPlayersForRole" =>
          \A i \in 1..Len(out.ranking) :
              0 <= out.ranking[i].roleScore /\ out.ranking[i].roleScore <= 100

\* C16: the percentile of a role score result is the mid-rank percentile of the
\* raw score among the raw scores of the cohort's players eligible for the role
C16_PercentileIsMidRankOfEligible ==
    (Scored /\ out.cohort # <<>>) =>
        out.result.percentile =
            <<calculatePercentile(out.result.rawScore,
                                  RawScores(filterPlayersByRole(out.cohort, out.role),
                                            out.role))>>

\* C17: the breakdown has one entry per metric of the role, each with
\* contribution = value * weight, ordered by descending absolute contribution
C17_BreakdownIsSortedByMagnitude ==
    Scored =>
        LET metrics == RoleDefinition(out.role)[1].metrics
            breakdown == out.result.breakdown
        IN  /\ Len(breakdown) = Len(metrics)
            /\ \A i \in 1..Len(metrics) :
                  \E j \in 1..Len(breakdown) :
                      /\ breakdown[j].metric = metrics[i].metric
                      /\ breakdown[j].weight = metrics[i].weight
                      /\ breakdown[j].value = MetricValue(out.player, metrics[i].metric)
                      /\ breakdown[j].contribution = breakdown[j].value * breakdown[j].weight
            /\ \A j \in 1..(Len(breakdown) - 1) :
                  Abs(breakdown[j].contribution) >= Abs(breakdown[j + 1].contribution)

\* the role's positions hold one of the codes of the player's position field
Eligible(player, role) ==
    Range(RoleDefinition(role)[1].positions) \cap Range(playerPositions(player)) # {}

\* C18: a player is scored for a role, in the best roles or in the ranking of
\* the role, only if the role's positions hold one of the player's position codes
C18_ScoredOnlyIfEligible ==
    /\ out.op = "getBestRoles" =>
          \A i \in 1..Len(out.results) : Eligible(out.player, out.results[i].role)
    /\ out.op = "rankPlayersForRole" =>
          \A i \in 1..Len(out.ranking) : Eligible(out.ranking[i].player, out.role)

\* C19: every candidate the similarity search returns is not the reference
\* player, has the minimum of minutes (450 unless the caller says otherwise),
\* shares a position with the reference player when samePositionOnly is set,
\* and is of another team when excludeSameTeam is set
C19_ResultsPassFilters ==
    out.op = "findSimilarPlayers" =>
        \A i \in 1..Len(out.results) :
            LET p == out.results[i].player
                ref == out.referencePlayer
            IN  /\ p # ref
                /\ p \in Range(out.candidates)
                /\ p["Minutes played"] >=
                      (IF out.options.minMinutes = <<>> THEN 450
                       ELSE out.options.minMinutes[1])
                /\ out.options.samePositionOnly =>
                      Range(playerPositions(p)) \cap Range(playerPositions(ref)) # {}
                /\ out.options.excludeSameTeam => p.Team # ref.Team
                /\ (out.options.samePositionOnly /\ ref.Position = ST) => p.Position # GK

\* a search on position for a striker among candidates with a goalkeeper, which
\* returns someone
C19_Witness ==
    /\ out.op = "findSimilarPlayers"
    /\ out.options.samePositionOnly
    /\ out.referencePlayer.Position = ST
    /\ \E i \in 1..Len(out.candidates) : out.candidates[i].Position = GK
    /\ out.results # <<>>

\* the score of the reference player against itself, for the search that was made
SelfScore ==
    LET metricKeys == extractNumericMetricKeys(out.candidates)
        bounds == [key \in Range(metricKeys) |->
                      calculateMetricBounds(MetricColumn(out.candidates, key))]
    IN  similarityScore(distanceBy(out.options.algorithm, out.referencePlayer,
                                   out.referencePlayer, metricKeys, bounds),
                        Len(metricKeys))

\* C20: the similarity score is in [0, 100] for every distance function and
\* every set of metrics, and no candidate scores above the reference player
\* against itself
C20_ScoreInRange ==
    out.op = "findSimilarPlayers" =>
        \A i \in 1..Len(out.results) :
            LET score == out.results[i].score
            IN  /\ score.den > 0
                /\ 0 <= score.num
                /\ score.num <= 100 * score.den
                /\ SelfScore.den > 0
                /\ score.num * SelfScore.den <= SelfScore.num * score.den

\* the candidates that pass the filters of the search that was made, in input order
FilteredOfSearch == filterCandidates(out.candidates, out.referencePlayer, out.options)

\* the score of a candidate against the reference player of the search
ScoreOfSearch(candidate) ==
    LET metricKeys == extractNumericMetricKeys(out.candidates)
        bounds == [key \in Range(metricKeys) |->
                      calculateMetricBounds(MetricColumn(out.candidates, key))]
    IN  similarityScore(distanceBy(out.options.algorithm, out.referencePlayer,
                                   candidate, metricKeys, bounds),
                        Len(metricKeys))

ScoreAbove(a, b) == a.den > 0 /\ b.den > 0 /\ a.num * b.den > b.num * a.den

\* the filtered candidate at k comes before the one at l in the ranking: its
\* score is higher, or it is the same and k is earlier in the input
RanksBefore(k, l) ==
    LET a == ScoreOfSearch(FilteredOfSearch[k])
        b == ScoreOfSearch(FilteredOfSearch[l])
    IN  ScoreAbove(a, b) \/ (~ScoreAbove(b, a) /\ k < l)

MaxResultsOf(options) == IF options.maxResults = <<>> THEN 10 ELSE options.maxResults[1]

\* C21: the similarity search returns the N (maxResults, 10 by default)
\* highest-scoring filtered candidates, or all of them when there are fewer, in
\* descending order of score, candidates of equal score in their input order
C21_TopNStableDescending ==
    out.op = "findSimilarPlayers" =>
        LET n == Len(out.results)
            m == Len(FilteredOfSearch)
            limit == MaxResultsOf(out.options)
        IN  /\ n = (IF m < limit THEN m ELSE limit)
            /\ \E at \in [1..n -> 1..m] :
                  /\ \A i \in 1..n :
                        /\ out.results[i].player = FilteredOfSearch[at[i]]
                        /\ out.results[i].score = ScoreOfSearch(FilteredOfSearch[at[i]])
                  /\ \A i, j \in 1..n : i < j => RanksBefore(at[i], at[j])
                  /\ \A k \in 1..m :
                        (\A i \in 1..n : at[i] # k) =>
                            \A i \in 1..n : RanksBefore(at[i], k)

\* a search that leaves a filtered candidate out, reorders the ones it returns,
\* or returns two different candidates of the same score
C21_Witness ==
    /\ out.op = "findSimilarPlayers"
    /\ Len(out.results) = 2
    /\ Len(FilteredOfSearch) = 3
    /\ out.results[1].player # FilteredOfSearch[1]
    /\ ScoreAbove(out.results[1].score, out.results[2].score)
    /\ \E k \in 1..3 :
          /\ FilteredOfSearch[k] # out.results[2].player
          /\ FilteredOfSearch[k] # out.results[1].player
          /\ ~ScoreAbove(out.results[2].score, ScoreOfSearch(FilteredOfSearch[k]))
          /\ ~ScoreAbove(ScoreOfSearch(FilteredOfSearch[k]), out.results[2].score)

\* C22: k-means makes at most maxIterations assignment rounds, whatever the
\* input and the shuffle, and every cluster it returns has at least one member
C22_TerminatesWithinCapWithoutEmptyClusters ==
    out.op = "kMeansClustering" =>
        /\ out.rounds <= out.config.maxIterations
        /\ \A c \in 1..Len(out.results) :
              /\ out.results[c].size > 0
              /\ out.results[c].players # <<>>

\* a run that used every round of its cap and left a cluster without members,
\* which is not returned
C22_Witness ==
    /\ out.op = "kMeansClustering"
    /\ out.config.maxIterations >= 1
    /\ out.rounds = out.config.maxIterations
    /\ out.config.k <= Len(out.data)
    /\ out.results # <<>>
    /\ Len(out.results) < out.config.k

\* C23: with k above the number of players, or without metrics, clustering
\* returns no cluster and makes no assignment round
C23_RejectedUpFront ==
    (/\ out.op = "kMeansClustering"
     /\ \/ out.config.k > Len(out.data)
        \/ out.config.metrics = <<>>)
    => (out.results = <<>> /\ out.rounds = 0)

\* a call with players, a metric and rounds allowed, and k above the number of
\* players
C23_Witness ==
    /\ out.op = "kMeansClustering"
    /\ out.data # <<>>
    /\ out.config.metrics # <<>>
    /\ out.config.maxIterations >= 1
    /\ out.config.k > Len(out.data)
    /\ out.results = <<>>

\* the vector of a player of the clustered pool in normalized metric space
VectorOf(player) ==
    LET bounds == [m \in Range(out.config.metrics) |->
                      calculateMetricBounds(MetricColumn(out.data, m))]
    IN  [d \in 1..Len(out.config.metrics) |->
            Normalized(player, out.config.metrics[d], bounds)]

\* the sum over the players of dimension d of their vectors
RECURSIVE SumOfMembers(_, _)
SumOfMembers(players, d) ==
    IF players = <<>> THEN Quotient(0, 1)
    ELSE Plus(VectorOf(Head(players))[d], SumOfMembers(Tail(players), d))

\* C24: the centroid of every cluster k-means returns is the per-dimension
\* mean of the normalized vectors of the members of that cluster
C24_CentroidIsMeanOfMembers ==
    out.op = "kMeansClustering" =>
        \A c \in 1..Len(out.results) :
            LET members == out.results[c].players
            IN  \A d \in 1..Len(out.config.metrics) :
                    Times(out.results[c].centroid[d], Quotient(Len(members), 1))
                        = SumOfMembers(members, d)

\* the rows of the loaded players file that name the team
RECURSIVE RowsOfTeam(_, _)
RowsOfTeam(rows, teamName) ==
    IF rows = <<>> THEN <<>>
    ELSE (IF Head(rows).Team = teamName THEN <<Head(rows)>> ELSE <<>>)
         \o RowsOfTeam(Tail(rows), teamName)

\* C25: every team aggregate the query service returns is the aggregate of the
\* team's players in the dataset of the last initialization, also when one for
\* the same name was stored from the dataset before it within the time-to-live
C25_AggregateIsOfCurrentDataset ==
    out.op = "teamStats" =>
        out.result = aggregate(RowsOfTeam(input.players, out.team))

\* the keys a lookup can be made with: those of the index and those of the
\* stored players
TeamKeys == Range(MapKeys(db.playersByTeam)) \cup {e.teamName : e \in Players}
LeagueKeys == Range(MapKeys(db.playersByLeague)) \cup {e.league : e \in Players}
PositionKeys == Range(MapKeys(db.playersByPosition)) \cup {e.position : e \in Players}

\* C26: after a load, every player a lookup by team, league or position
\* returns has that team, league or position, and every stored player that has
\* one is returned by the lookup for its own
C26_IndexesAgreeWithPlayers ==
    /\ \A key \in TeamKeys :
          \A e \in Range(getPlayersByTeam(db, key)) : e.teamName = key
    /\ \A key \in LeagueKeys :
          \A e \in Range(getPlayersByLeague(db, key)) : e.league = key
    /\ \A key \in PositionKeys :
          \A e \in Range(getPlayersByPosition(db, key)) : e.position = key
    /\ \A e \in Players :
          /\ e.teamName # <<>> => e \in Range(getPlayersByTeam(db, e.teamName))
          /\ e.league # <<>> => e \in Range(getPlayersByLeague(db, e.league))
          /\ e.position # <<>> => e \in Range(getPlayersByPosition(db, e.position))

\* C27: when two stored players have the same normalized name and different
\* teams, a shot with that name and the team of one of them refers to the
\* player of that team
C27_ShotLinkedToPlayerOfItsTeam ==
    \A s \in Shots :
        \A e, other \in Players :
            (/\ normalizeName(e.name) = normalizeName(other.name)
             /\ e.teamName # other.teamName
             /\ normalizeName(s.playerName) = normalizeName(e.name)
             /\ s.teamName = e.teamName)
            => s.playerId = e.id

\* C28: a derived getter of the data store returns the value of the state the
\* store is in when it is called, whatever setters, resets and reads came
\* before
C28_GettersReturnCurrentValues ==
    /\ out.op = "getTeams" => out.result = combinedTeams(store)
    /\ out.op = "getLeagues" => out.result = extractLeagues(store.players)
    /\ out.op = "getPositions" => out.result = extractPositions(store.players)
    /\ out.op = "getDatasetStats" =>
          /\ out.result.playerCount = Len(store.players)
          /\ out.result.teamCount = Len(combinedTeams(store))
          /\ out.result.shotCount = Len(store.shots)
          /\ out.result.leagues = extractLeagues(store.players)
          /\ out.result.positions = extractPositions(store.players)

\* the loads in flight among the given ones
PendingIn(loads) == {id \in 1..Len(loads) : loads[id] = "pending"}

\* what the promise of a call has settled to: <<>> while it is pending
ResultOf(call) ==
    IF call.returns[1] = "data" THEN call.returns
    ELSE CASE loader.loads[call.returns[2]] = "pending" -> <<>>
           [] loader.loads[call.returns[2]] = "fulfilled" -> <<"data", call.returns[2]>>
           [] loader.loads[call.returns[2]] = "rejected" -> <<"error", call.returns[2]>>

Calls == Range(loader.calls)

C30_ReloadReturnsLaterLoad ==
    \A call \in Calls :
        (call.kind = "reload" /\ ResultOf(call) # <<>> /\ ResultOf(call)[1] = "data")
        => ResultOf(call)[2] > Len(call.loadsBefore)

====
